---- MODULE Spec2Model ----
(***************************************************************************)
(* Econograph: the swimlane constellation layout (js/visualization.js),    *)
(* with the birth-year derivations of the timeline browse view (app.js)    *)
(* and of the debates view (debates.js).                                   *)
(*                                                                         *)
(* Conventions.                                                            *)
(*  - A JavaScript value that may be a number, NaN, null or undefined is   *)
(*    a record [t |-> kind, v |-> integer].                                *)
(*  - Timestamps (node.born, seconds since the epoch) are held in units    *)
(*    of 100 s, so that the code's clamp of -20000000000 s is -200000000.  *)
(*  - Pixels are whole numbers; the linear scale is kept as an exact       *)
(*    numerator over the width of its domain and truncated to a pixel      *)
(*    only where a position is stored.                                     *)
(***************************************************************************)
EXTENDS Integers, Sequences, FiniteSets, TLC

VARIABLES
    nodes,          \* graphData.nodes: sequence of [school, born]
    birthYear,      \* node.birthYear as visualization.js derives it
    appBirthYear,   \* n.birthYear as app.js derives it
    schoolColumns,  \* school -> [x, index]
    globalYScale,   \* [d0, d1, r0, r1] of the d3 linear scale, or Undef
    innerHeight,    \* window.innerHeight
    tzOffset,       \* local time minus UTC, in units of 100 s
    nodeX, nodeY,   \* node.x, node.y
    nodeFx, nodeFy, \* node.fx, node.fy (JNull = free)
    forces,         \* the simulation's installed forces, by name
    alpha,          \* simulation.alpha(), in units of 1/AlphaUnits
    alphaTarget,    \* simulation.alphaTarget(), same units
    running,        \* the simulation's timer is scheduled
    timelineChecked,\* #timeline-toggle.checked
    gesture,        \* pointer -> index of the node it drags, 0 = none
    activeSchoolFilter,
    phase,          \* "loaded" before init() has run, "ready" after
    links,          \* graphData.links: sequence of [source, target] ids
    adj,            \* app.js: id -> set of neighbour ids
    selectedNode,   \* index of the selected node, 0 = null
    searchMatches,  \* set of node indexes
    selectedClass,  \* node elements carrying class 'selected'
    matchClass,     \* node elements carrying class 'search-match'
    highlighted,    \* link elements carrying class 'highlighted'
    nodeOpacity,    \* inline opacity of a node element, in hundredths
    nodePointerEvents, \* inline pointer-events of a node element
    linkOpacity,    \* inline opacity of a link element, in hundredths
    transform,      \* the transform attribute of g: [k, x, y], k in hundredths
    legendItems,    \* the schools that have a .legend-item
    legendActive,   \* legend items carrying class 'active'
    legendInactive, \* legend items carrying class 'inactive'
    showAllDisplay, \* inline display of #show-all-btn
    repeats,        \* runs of processNodeData on the same dataset since the first
    activeSchools,  \* app.js: the schools chosen in the filter list
    activeEras,     \* app.js: the era labels chosen in the filter list
    searchQuery,    \* app.js: the applied query, a sequence of characters
    searchBox,      \* value of #search and #mobile-search
    searchTimer,    \* << >> or << val >>: the pending debounce and its text
    listed,         \* the nodes that have a row in #timeline-list
    appSelected,    \* app.js: selectedNode, as a node index, 0 = null
    panelHidden,    \* #detail-panel carries class 'detail-hidden'
    bioText,        \* #detail-bio: [kind, of]
    fetches,        \* the biography requests in flight: [n, k]
    miniTimers,     \* pending setTimeout(renderMiniNetwork): [n, k]
    miniSims,       \* the mini-network simulations whose timer runs: k -> alpha
    miniSvg,        \* the simulation whose svg is in #mini-network, 0 = none
    opens,          \* how many times openDetail has run
    landing,        \* #landing-overlay: "loading", "shown", "hiding", "gone"
    landingSim,     \* alpha of the landing simulation, 0 = its timer is stopped
    landingTimers,  \* pending setTimeout(openDetail) of the landing: node indexes
    researchShown,  \* #research-results: [kind, q, cards]
    contextPending, \* research searches waiting for the Wikipedia context: [q, k]
    summaryPending, \* research searches waiting for the summaries: [q, k, final]
    issued,         \* how many research searches were issued
    latestQuery,    \* the text of the search issued last
    debate,         \* debates.js: the debate resolved, [namesA, namesB, schoolsA, schoolsB]
    resolved,       \* _resolved[debate.id]: << >> or << [nodesA, nodesB] >>
    returned,       \* what the last call of resolveDebate returned
    calls           \* how many times resolveDebate was called

vars == << nodes, birthYear, appBirthYear, schoolColumns, globalYScale,
           innerHeight, tzOffset, nodeX, nodeY, nodeFx, nodeFy, forces,
           alpha, alphaTarget, running, timelineChecked, gesture,
           activeSchoolFilter, phase, links, adj, selectedNode,
           searchMatches, selectedClass, matchClass, highlighted, nodeOpacity,
           nodePointerEvents, linkOpacity, transform, legendItems,
           legendActive, legendInactive, showAllDisplay, repeats,
           activeSchools, activeEras, searchQuery, searchBox, searchTimer,
           listed, appSelected, panelHidden, bioText, fetches, miniTimers,
           miniSims, miniSvg, opens, landing, landingSim, landingTimers,
           researchShown, contextPending, summaryPending, issued,
           latestQuery, debate, resolved, returned, calls >>

\* The state of the timeline browse page (app.js) and of the landing screen
searchVars == << activeSchools, activeEras, searchQuery, searchBox,
                 searchTimer, listed >>
detailVars == << appSelected, panelHidden, bioText, fetches, miniTimers,
                 miniSims, miniSvg, opens >>
landingVars == << landing, landingSim, landingTimers >>
researchVars == << researchShown, contextPending, summaryPending, issued,
                   latestQuery >>
debateVars == << debate, resolved, returned, calls >>
otherPages == << researchVars, debateVars >>
pageVars == << searchVars, detailVars, landingVars, otherPages >>

dataVars == << nodes, birthYear, appBirthYear, schoolColumns, globalYScale,
               tzOffset, links, adj, repeats >>

\* What selection and search keep, and what the filter keeps, on the page
pickVars  == << selectedNode, searchMatches, selectedClass, matchClass,
               highlighted >>
legendVars == << legendItems, legendActive, legendInactive, showAllDisplay >>
styleVars == << nodeOpacity, nodePointerEvents, linkOpacity, legendVars >>

----------------------------------------------------------------------------
(* JavaScript values *)

Num(n) == [t |-> "num", v |-> n]
NaN    == [t |-> "nan", v |-> 0]
Undef  == [t |-> "undefined", v |-> 0]
JNull  == [t |-> "null", v |-> 0]

IsNum(a) == a.t = "num"

\* a == null in JavaScript: true of null and of undefined, false of NaN
IsNullish(a) == a.t \in {"null", "undefined"}

\* ToNumber: undefined -> NaN, null -> 0
ToNumber(a) == IF a.t = "null" THEN Num(0)
               ELSE IF a.t = "num" THEN a ELSE NaN

\* Boolean(a): 0, NaN, null and undefined are falsy
Truthy(a) == a.t = "num" /\ a.v # 0

JAdd(a, b) == IF IsNum(ToNumber(a)) /\ IsNum(ToNumber(b))
              THEN Num(ToNumber(a).v + ToNumber(b).v) ELSE NaN

MathMax(a, b) == IF IsNum(ToNumber(a)) /\ IsNum(ToNumber(b))
                 THEN (IF ToNumber(a).v >= ToNumber(b).v
                       THEN ToNumber(a) ELSE ToNumber(b))
                 ELSE NaN

Range(s) == {s[i] : i \in DOMAIN s}

----------------------------------------------------------------------------
(* Constants of visualization.js *)

COLUMN_WIDTH == 220
TOP_PADDING  == 80

SCHOOL_ORDER ==
    << "Classical/Neoclassical", "Marxian", "Austrian School",
       "Institutional", "Economic History", "Keynesian",
       "Welfare & Public Economics", "Chicago School", "Development",
       "Political Economy", "Public Choice", "International Trade",
       "Labor Economics", "Econometrics", "Game Theory", "Finance",
       "New Keynesian", "Behavioral", "Health Economics",
       "Environmental Economics", "Other" >>

\* Math.max(node.born, -20000000000), in units of 100 s
BORN_CLAMP == -200000000

----------------------------------------------------------------------------
(* Bounds and input sets *)

MaxNodes == 2

\* Two listed schools, given out of canonical order, and two unlisted ones,
\* given out of alphabetical order.
Schools == {"Other", "Keynesian", "Zeta", "Alpha"}

\* Timestamps in units of 100 s: 1850-03-15, 1950-09-01 (second half of the
\* year), the epoch, one below the clamp (about the year 1019), and none.
Born1850 == Num(-37805184)
Born1950 == Num(-6101568)
BornZero == Num(0)
BornOld  == Num(-300000000)
BornValues == {Undef, BornZero, Born1850, Born1950, BornOld}

\* The economists a dataset is drawn from: every school with two timestamps,
\* every timestamp with at least one school.
NodeRecords ==
    { [school |-> "Keynesian", born |-> Born1950],
      [school |-> "Keynesian", born |-> Undef],
      [school |-> "Other",     born |-> Born1850],
      [school |-> "Other",     born |-> BornZero],
      [school |-> "Zeta",      born |-> BornOld],
      [school |-> "Zeta",      born |-> Born1950],
      [school |-> "Alpha",     born |-> Undef],
      [school |-> "Alpha",     born |-> Born1850] }

RECURSIVE SeqsUpTo(_, _)
SeqsUpTo(S, n) ==
    IF n = 0 THEN {<< >>}
    ELSE LET shorter == SeqsUpTo(S, n - 1)
         IN  shorter \cup {Append(s, e) : s \in {q \in shorter : Len(q) = n - 1},
                                          e \in S}

Datasets == SeqsUpTo(NodeRecords, MaxNodes)

Heights   == {600, 1000}
TzOffsets == {0, -180}       \* UTC and UTC-5
Jitters   == {-20, 19}       \* (Math.random() - 0.5) * 40 lies in [-20, 20)

----------------------------------------------------------------------------
(* Calendar conversion *)

\* The proleptic Gregorian year of a day number (days since 1970-01-01).
YearOfDay(days) ==
    LET z   == days + 719468
        era == z \div 146097
        doe == z - era * 146097
        yoe == (doe - doe \div 1460 + doe \div 36524 - doe \div 146096) \div 365
        doy == doe - (365 * yoe + yoe \div 4 - yoe \div 100)
        mp  == (5 * doy + 2) \div 153
        m   == IF mp < 10 THEN mp + 3 ELSE mp - 9
    IN  yoe + era * 400 + (IF m <= 2 THEN 1 ELSE 0)

\* new Date(t * 1000).getFullYear(), local time; t in units of 100 s
GetFullYear(t, tz) ==
    IF IsNum(t) THEN Num(YearOfDay((t.v + tz) \div 864)) ELSE NaN

\* visualization.js: clamp, then the calendar year
VisBirthYear(born, tz) == GetFullYear(MathMax(born, Num(BORN_CLAMP)), tz)

\* Math.round(born / (365.25 * 86400) + 1970); a Julian year is 315576 units
RoundYear(b) == 1970 + (2 * b + 315576) \div (2 * 315576)

\* app.js: n.born ? Math.round(...) : null
AppBirthYear(born) == IF Truthy(born) THEN Num(RoundYear(born.v)) ELSE JNull

\* debates.js: birthYearOf(n), n.birthYear being what app.js left there
birthYearOf(born, by) ==
    IF ~IsNullish(by) THEN by
    ELSE IF ~Truthy(born) THEN JNull
    ELSE Num(RoundYear(born.v))

----------------------------------------------------------------------------
(* processNodeData: lanes *)

\* new Set(graphData.nodes.map(n => n.school)), in insertion order
RECURSIVE Distinct(_)
Distinct(s) ==
    IF s = << >> THEN << >>
    ELSE LET front == Distinct(SubSeq(s, 1, Len(s) - 1))
             last  == s[Len(s)]
         IN  IF last \in Range(front) THEN front ELSE Append(front, last)

presentSchools(ns) == Distinct([i \in DOMAIN ns |-> ns[i].school])

\* SCHOOL_ORDER.filter(s => presentSchools.has(s)), then the extras
IsPresent(ns, s)  == \E i \in DOMAIN ns : ns[i].school = s
IsUnlisted(s)     == s \notin Range(SCHOOL_ORDER)
ListedPresent(ns) == LET Test(s) == IsPresent(ns, s)
                     IN  SelectSeq(SCHOOL_ORDER, Test)
\* As ordered, without the canonical list: the schools as first seen.
orderedAsSeen(ns) == presentSchools(ns)

ordered(ns)       == ListedPresent(ns)
                     \o SelectSeq(presentSchools(ns), IsUnlisted)

LaneX(i) == i * COLUMN_WIDTH + COLUMN_WIDTH \div 2

\* schoolColumns[school] = { x, index }, i counted from 0
Lane(ord, k) == LET i == CHOOSE j \in DOMAIN ord : ord[j] = k
                IN  [x |-> LaneX(i - 1), index |-> i - 1]

\* As AssignLanes, numbering the lanes after those already in the object.
AssignLanesAfter(old, ord) ==
    [k \in DOMAIN old \cup Range(ord) |->
        IF k \in Range(ord)
        THEN [x     |-> LaneX(Lane(ord, k).index + Cardinality(DOMAIN old)),
              index |-> Lane(ord, k).index + Cardinality(DOMAIN old)]
        ELSE old[k]]

\* The assignments of the forEach, made into the existing object
AssignLanes(old, ord) ==
    [k \in DOMAIN old \cup Range(ord) |->
        IF k \in Range(ord) THEN Lane(ord, k) ELSE old[k]]

\* As ColumnX, without the step through the 'Other' lane.
ColumnXNoOther(cols, school) ==
    IF school \in DOMAIN cols THEN cols[school].x ELSE COLUMN_WIDTH \div 2

\* schoolColumns[d.school] || schoolColumns['Other'], then col ? col.x : ...
ColumnX(cols, school) ==
    IF school \in DOMAIN cols THEN cols[school].x
    ELSE IF "Other" \in DOMAIN cols THEN cols["Other"].x
    ELSE COLUMN_WIDTH \div 2

----------------------------------------------------------------------------
(* processNodeData: the global Y scale *)

ValidYears(by) == {by[i].v : i \in {j \in DOMAIN by : IsNum(by[j])}}

SetMin(S) == CHOOSE m \in S : \A e \in S : m <= e
SetMax(S) == CHOOSE m \in S : \A e \in S : m >= e

\* d3.min / d3.max skip NaN, null and undefined; undefined when nothing is left
d3min(by) == IF ValidYears(by) = {} THEN Undef ELSE Num(SetMin(ValidYears(by)))
d3max(by) == IF ValidYears(by) = {} THEN Undef ELSE Num(SetMax(ValidYears(by)))

\* d3.scaleLinear().domain([minYear - 10, maxYear + 10])
\*                 .range([h * 0.88, TOP_PADDING])
MakeScale(by, h) ==
    [d0 |-> JAdd(d3min(by), Num(-10)),
     d1 |-> JAdd(d3max(by), Num(10)),
     r0 |-> (h * 22) \div 25,
     r1 |-> TOP_PADDING]

ScaleDefined(sc) == IsNum(sc.d0) /\ IsNum(sc.d1) /\ sc.d1.v # sc.d0.v

\* scale(y) = r0 + (y - d0) / (d1 - d0) * (r1 - r0), as ScaleNum / ScaleDen
ScaleDen(sc)    == sc.d1.v - sc.d0.v
ScaleNum(sc, y) == sc.r0 * ScaleDen(sc) + (y - sc.d0.v) * (sc.r1 - sc.r0)

\* globalYScale(year) as a stored pixel; NaN for a NaN year or a NaN domain
ApplyScale(sc, year) ==
    IF IsNum(ToNumber(year)) /\ ScaleDefined(sc)
    THEN Num(ScaleNum(sc, ToNumber(year).v) \div ScaleDen(sc))
    ELSE NaN

----------------------------------------------------------------------------
(* The d3 force simulation that createSimulation sets up *)

\* alpha is held in units of 1/AlphaUnits.  d3's alphaMin (0.001) lies below
\* one unit, so "alpha < alphaMin" is "alpha = 0 units".
AlphaUnits == 10
ALPHA_INITIAL == AlphaUnits               \* d3.forceSimulation: alpha = 1
ALPHA_DRAG    == (3 * AlphaUnits) \div 10 \* alphaTarget(0.3)
ALPHA_TOGGLE  == (4 * AlphaUnits) \div 10 \* alpha(0.4)
ALPHA_RESIZE  == (2 * AlphaUnits) \div 10 \* alpha(0.2)
BelowAlphaMin(a) == a < 1

\* Each tick moves alpha toward alphaTarget by 1/CoolDiv of the gap (d3:
\* alpha += (alphaTarget - alpha) * alphaDecay), and by one unit at least.
CoolDiv == 2

\* forceSimulation's initializeNodes: a node whose x or y is NaN is placed on
\* the phyllotaxis spiral, radius 10 * sqrt(i), angle i * pi * (3 - sqrt(5)),
\* rounded to the pixel.
PhylloX(i) == CASE i = 0 -> 0 [] i = 1 -> -7 [] i = 2 -> 1   [] OTHER -> 11
PhylloY(i) == CASE i = 0 -> 0 [] i = 1 -> 7  [] i = 2 -> -14 [] OTHER -> 14

NeedsPlacing(sx, sy) == ~IsNum(ToNumber(sx)) \/ ~IsNum(ToNumber(sy))
InitialX(sx, sy, i)  == IF NeedsPlacing(sx, sy) THEN Num(PhylloX(i - 1)) ELSE sx
InitialY(sx, sy, i)  == IF NeedsPlacing(sx, sy) THEN Num(PhylloY(i - 1)) ELSE sy

\* d3.forceX(d => column x).strength(0.7): the targets are read once, when the
\* force is initialised.  Strengths in hundredths.
ForceX(ns, cols) ==
    [strength |-> 70,
     target   |-> [i \in DOMAIN ns |-> Num(ColumnX(cols, ns[i].school))]]

\* d3.forceY(d => globalYScale(d.birthYear)).strength(0.9)
ForceY(by, sc) ==
    [strength |-> 90, target |-> [i \in DOMAIN by |-> ApplyScale(sc, by[i])]]

ForceLink      == [strength |-> 8,     target |-> << >>]
ForceCharge    == [strength |-> -2500, target |-> << >>]
ForceCollision == [strength |-> 100,   target |-> << >>]

CreatedForces(ns, by, cols, sc) ==
    [f \in {"link", "charge", "collision", "x", "y"} |->
        CASE f = "link"      -> ForceLink
          [] f = "charge"    -> ForceCharge
          [] f = "collision" -> ForceCollision
          [] f = "x"         -> ForceX(ns, cols)
          [] f = "y"         -> ForceY(by, sc)]

Pointers == {"mouse", "touch"}

\* activeSchoolFilter = null
NoFilter == "<null>"

----------------------------------------------------------------------------
(* init(): processNodeData, then createSimulation *)

BirthYears(ns, tz) == [i \in DOMAIN ns |-> VisBirthYear(ns[i].born, tz)]

\* node.x = (col ? col.x : COLUMN_WIDTH / 2) + (Math.random() - 0.5) * 40
SeedX(ns, cols, jit) ==
    [i \in DOMAIN ns |-> Num(ColumnX(cols, ns[i].school) + jit[i])]

\* node.y = globalYScale(node.birthYear)
SeedY(by, sc) == [i \in DOMAIN by |-> ApplyScale(sc, by[i])]

\* processNodeData() on the dataset ns, writing the module's globals, followed
\* by d3.forceSimulation(graphData.nodes) and its forces.
processNodeData(ns, jit) ==
    \E by \in {BirthYears(ns, tzOffset)} :
    \E cols \in {AssignLanes(schoolColumns, ordered(ns))} :
    \E sc \in {MakeScale(by, innerHeight)} :
    \E sx \in {SeedX(ns, cols, jit)} :
    \E sy \in {SeedY(by, sc)} :
        /\ nodes' = ns
        /\ birthYear' = by
        /\ schoolColumns' = cols
        /\ globalYScale' = sc
        /\ nodeX' = [i \in DOMAIN ns |-> InitialX(sx[i], sy[i], i)]
        /\ nodeY' = [i \in DOMAIN ns |-> InitialY(sx[i], sy[i], i)]
        /\ nodeFx' = [i \in DOMAIN ns |-> JNull]
        /\ nodeFy' = [i \in DOMAIN ns |-> JNull]
        /\ forces' = CreatedForces(ns, by, cols, sc)
        /\ repeats' = IF phase = "ready" /\ ns = nodes THEN repeats + 1 ELSE 0

createSimulation ==
    /\ alpha' = ALPHA_INITIAL
    /\ alphaTarget' = 0
    /\ running' = TRUE
    /\ gesture' = [p \in Pointers |-> 0]

\* app.js: undirected adjacency sets.  Object keys and the members of the
\* sets are strings: String(id) of an id.
StringOf(id) == [t |-> "str", v |-> id]
PresentKeys(ns) == {StringOf(i) : i \in DOMAIN ns}

\* As Neighbours, following each link from its source only.
NeighboursDirected(ns, ls, k) ==
    {StringOf(ls[l].target) : l \in {m \in DOMAIN ls : StringOf(ls[m].source) = k}}

\* if (adj[s]) adj[s].add(t); if (adj[t]) adj[t].add(s);
Neighbours(ns, ls, k) ==
    {StringOf(ls[l].target) : l \in {m \in DOMAIN ls : StringOf(ls[m].source) = k}}
    \cup
    {StringOf(ls[l].source) : l \in {m \in DOMAIN ls : StringOf(ls[m].target) = k}}

buildAdj == adj' = [k \in PresentKeys(nodes) |-> Neighbours(nodes, links, k)]

\* renderGraph: one element per link and per node, no inline style yet
renderGraph(ns) ==
    /\ nodeOpacity' = [i \in DOMAIN ns |-> Undef]
    /\ nodePointerEvents' = [i \in DOMAIN ns |-> ""]
    /\ linkOpacity' = [l \in DOMAIN links |-> Undef]

\* createLegend: one item per school that has a node, and the hidden button
createLegend ==
    /\ legendItems' = {nodes[i].school : i \in DOMAIN nodes}
    /\ legendActive' = {}
    /\ legendInactive' = {}
    /\ showAllDisplay' = "none"

\* window.innerWidth
Widths == {1280}

\* initScale = totalW > 0 ? Math.min((window.innerWidth - 60) / totalW, 1) : 1
InitScale(w, cols) ==
    IF Cardinality(DOMAIN cols) * COLUMN_WIDTH > 0
    THEN LET q == ((w - 60) * 100) \div (Cardinality(DOMAIN cols) * COLUMN_WIDTH)
         IN  IF q < 100 THEN q ELSE 100
    ELSE 100

\* svg.call(zoom).call(zoom.transform, zoomIdentity.translate(30, 20).scale(initScale))
setupZoom(w, cols) == transform' = [k |-> InitScale(w, cols), x |-> 30, y |-> 20]

\* g has no transform attribute
NoTransform == [k |-> 0, x |-> 0, y |-> 0]

\* The Math.random() draws of one run: either end of the range, the same
\* for every node of the run.
JitterChoices(ns) == {[i \in DOMAIN ns |-> j] : j \in Jitters}

\* DOMContentLoaded: init()
Boot ==
    /\ phase = "loaded"
    /\ \E jit \in JitterChoices(nodes) : processNodeData(nodes, jit)
    /\ createSimulation
    /\ appBirthYear' = [i \in DOMAIN nodes |-> AppBirthYear(nodes[i].born)]
    /\ buildAdj
    /\ renderGraph(nodes)
    /\ \E w \in Widths : setupZoom(w, schoolColumns')
    /\ createLegend
    /\ phase' = "ready"
    /\ UNCHANGED << innerHeight, tzOffset, timelineChecked, activeSchoolFilter,
                    links, pickVars, pageVars >>

\* The dataset changes by one node and processNodeData runs again on it.
Removed(ns, i) == SubSeq(ns, 1, i - 1) \o SubSeq(ns, i + 1, Len(ns))

Rerun(ns) ==
    /\ phase = "ready"
    /\ \E jit \in JitterChoices(ns) : processNodeData(ns, jit)
    /\ createSimulation
    /\ appBirthYear' = [i \in DOMAIN ns |-> AppBirthYear(ns[i].born)]
    /\ renderGraph(ns)
    /\ UNCHANGED << innerHeight, tzOffset, timelineChecked, activeSchoolFilter,
                    phase, links, adj, pickVars, transform, legendVars,
                    pageVars >>

RemoveNode == \E i \in DOMAIN nodes : Rerun(Removed(nodes, i))

AddNode == /\ Len(nodes) < MaxNodes
           /\ \E n \in NodeRecords : Rerun(Append(nodes, n))

\* processNodeData runs again on the dataset as it is.
MaxRepeats == 1
Reprocess == /\ repeats < MaxRepeats
             /\ Rerun(nodes)

\* The page as loaded: graph_v3.js has injected the dataset, nothing has run.
PageState ==
    /\ birthYear = << >>
    /\ appBirthYear = << >>
    /\ schoolColumns = << >>
    /\ globalYScale = Undef
    /\ nodeX = << >> /\ nodeY = << >> /\ nodeFx = << >> /\ nodeFy = << >>
    /\ forces = << >>
    /\ alpha = 0 /\ alphaTarget = 0 /\ running = FALSE
    /\ timelineChecked = TRUE
    /\ gesture = [p \in Pointers |-> 0]
    /\ activeSchoolFilter = NoFilter
    /\ phase = "loaded"
    /\ adj = << >>
    /\ selectedNode = 0
    /\ searchMatches = {}
    /\ selectedClass = {} /\ matchClass = {} /\ highlighted = {}
    /\ nodeOpacity = << >> /\ nodePointerEvents = << >> /\ linkOpacity = << >>
    /\ transform = NoTransform
    /\ legendItems = {} /\ legendActive = {} /\ legendInactive = {}
    /\ showAllDisplay = ""
    /\ repeats = 0
    /\ activeSchools = {} /\ activeEras = {}
    /\ searchQuery = << >> /\ searchBox = << >> /\ searchTimer = << >>
    /\ listed = {}
    /\ appSelected = 0 /\ panelHidden = TRUE
    /\ bioText = [kind |-> "", of |-> 0]
    /\ fetches = {} /\ miniTimers = {} /\ miniSims = << >> /\ miniSvg = 0
    /\ opens = 0
    /\ landing = "loading" /\ landingSim = 0 /\ landingTimers = {}
    /\ researchShown = [kind |-> "", q |-> << >>, cards |-> << >>]
    /\ contextPending = {} /\ summaryPending = {}
    /\ issued = 0 /\ latestQuery = << >>
    /\ resolved = << >> /\ returned = << >> /\ calls = 0

\* No debate is looked at
NoDebate == [namesA |-> << >>, namesB |-> << >>, schoolsA |-> {}, schoolsB |-> {}]
PageLoaded == PageState /\ debate = NoDebate

InitData ==
    /\ nodes \in Datasets
    /\ links = << >>
    /\ innerHeight \in Heights
    /\ tzOffset \in TzOffsets
    /\ PageLoaded

NextData == Boot \/ RemoveNode \/ AddNode \/ Reprocess

SpecData == InitData /\ [][NextData]_vars

----------------------------------------------------------------------------
(* The running simulation: ticks, drag, timeline toggle, resize, filter *)

Max(a, b) == IF a >= b THEN a ELSE b

\* d3 tick: alpha += (alphaTarget - alpha) * alphaDecay
Cool(a, t) ==
    IF a > t THEN a - Max(1, (a - t) \div CoolDiv)
    ELSE IF a < t THEN a + Max(1, (t - a) \div CoolDiv)
    ELSE a

\* The displacements from its column and its place on the timeline among
\* which a node is moved.
Offsets == { <<0, 0>>, <<1, 1>> }
AnchorX(i) == ColumnX(schoolColumns, nodes[i].school)
AnchorY(i) == IF IsNum(ApplyScale(globalYScale, birthYear[i]))
              THEN ApplyScale(globalYScale, birthYear[i]).v
              ELSE 0
Box(i) == { << AnchorX(i) + o[1], AnchorY(i) + o[2] >> : o \in Offsets }

\* Without force 'y' nothing holds a node at its place on the timeline: charge
\* and collision may push it away along y.
Drifts == { <<0, 9>> }
Reach == IF "y" \in DOMAIN forces THEN Offsets ELSE Offsets \cup Drifts

\* The displacements of one tick: one of those in reach, the same for every
\* node of the tick.
TickChoices == {[i \in DOMAIN nodes |-> o] : o \in Reach}

\* The net velocity the forces give node i in a tick that takes it to
\* displacement o (link, charge and collision forces depend on the other
\* nodes and on random jiggle, so that any displacement may be the outcome).
Velocity(i, o) ==
    << IF IsNum(nodeX[i]) THEN AnchorX(i) + o[1] - nodeX[i].v ELSE 0,
       IF IsNum(nodeY[i]) THEN AnchorY(i) + o[2] - nodeY[i].v ELSE 0 >>
Velocities(os) == [i \in DOMAIN nodes |-> Velocity(i, os[i])]

\* A NaN target of an installed positional force makes the velocity NaN.
Poisoned(f, i) == f \in DOMAIN forces /\ ~IsNum(forces[f].target[i])

\* As Stepped, with the pin ignored.
SteppedFree(cur, pin, v, poisoned) ==
    IF ~IsNum(cur) \/ poisoned THEN NaN ELSE Num(cur.v + v)

\* if (node.fx == null) node.x += node.vx *= velocityDecay; else node.x = node.fx
Stepped(cur, pin, v, poisoned) ==
    IF ~IsNullish(pin) THEN pin
    ELSE IF ~IsNum(cur) \/ poisoned THEN NaN
    ELSE Num(cur.v + v)

TickWith(v) ==
    /\ phase = "ready"
    /\ running
    /\ alpha' = Cool(alpha, alphaTarget)
    /\ nodeX' = [i \in DOMAIN nodes |->
                    Stepped(nodeX[i], nodeFx[i], v[i][1], Poisoned("x", i))]
    /\ nodeY' = [i \in DOMAIN nodes |->
                    Stepped(nodeY[i], nodeFy[i], v[i][2], Poisoned("y", i))]
    /\ running' = ~BelowAlphaMin(alpha')
    /\ UNCHANGED << dataVars, pageVars, pickVars, styleVars, transform, innerHeight,
                    nodeFx, nodeFy, forces,
                    alphaTarget, timelineChecked, gesture, activeSchoolFilter,
                    phase >>

\* One step of the simulation's timer
Tick ==
    /\ phase = "ready"
    /\ running
    /\ \E os \in TickChoices : TickWith(Velocities(os))

\* d3.event.active: the gestures in progress, the one of the event aside
Active(g) == Cardinality({q \in Pointers : g[q] # 0})

\* As TargetAfterEnd, lowering the target at every drag end.
TargetAlwaysZero(g, cur) == 0

\* As TargetAfterEnd, never lowering the target.
TargetKept(g, cur) == cur

\* if (!d3.event.active) simulation.alphaTarget(0.3).restart()
TargetAfterStart(g, cur) == IF Active(g) = 0 THEN ALPHA_DRAG ELSE cur

\* if (!d3.event.active) simulation.alphaTarget(0)
TargetAfterEnd(g, cur) == IF Active(g) = 0 THEN 0 ELSE cur

dragStarted(p, i) ==
    /\ phase = "ready"
    /\ gesture[p] = 0
    /\ alphaTarget' = TargetAfterStart(gesture, alphaTarget)
    /\ running' = (running \/ Active(gesture) = 0)
    /\ nodeFx' = [nodeFx EXCEPT ![i] = nodeX[i]]
    /\ nodeFy' = [nodeFy EXCEPT ![i] = nodeY[i]]
    /\ gesture' = [gesture EXCEPT ![p] = i]
    /\ UNCHANGED << dataVars, pageVars, pickVars, styleVars, transform, innerHeight,
                    nodeX, nodeY, forces,
                    alpha, timelineChecked, activeSchoolFilter, phase >>

dragging(p, ex, ey) ==
    /\ phase = "ready"
    /\ gesture[p] # 0
    /\ nodeFx' = [nodeFx EXCEPT ![gesture[p]] = Num(ex)]
    /\ nodeFy' = [nodeFy EXCEPT ![gesture[p]] = Num(ey)]
    /\ UNCHANGED << dataVars, pageVars, pickVars, styleVars, transform, innerHeight,
                    nodeX, nodeY, forces,
                    alpha, alphaTarget, running, timelineChecked, gesture,
                    activeSchoolFilter, phase >>

\* As Released, with the second assignment keeping y pinned.
ReleasedX(fs, i) == fs

\* d.fx = null; d.fy = null
Released(fs, i) == [fs EXCEPT ![i] = JNull]

dragEnded(p) ==
    /\ phase = "ready"
    /\ gesture[p] # 0
    /\ gesture' = [gesture EXCEPT ![p] = 0]
    /\ alphaTarget' = TargetAfterEnd(gesture', alphaTarget)
    /\ nodeFx' = [nodeFx EXCEPT ![gesture[p]] = JNull]
    /\ nodeFy' = Released(nodeFy, gesture[p])
    /\ UNCHANGED << dataVars, pageVars, pickVars, styleVars, transform, innerHeight,
                    nodeX, nodeY, forces,
                    alpha, running, timelineChecked, activeSchoolFilter, phase >>

\* A node element with pointer-events 'none' receives no pointer event.
Interactive(i) == nodePointerEvents[i] # "none"

DragStart == /\ phase = "ready"
             /\ \E p \in Pointers, i \in DOMAIN nodes :
                    Interactive(i) /\ dragStarted(p, i)
DragMove  == \E p \in Pointers :
                 /\ gesture[p] # 0
                 /\ \E e \in Box(gesture[p]) : dragging(p, e[1], e[2])
DragEnd   == \E p \in Pointers : dragEnded(p)

\* As Without, removing every force.
WithoutAll(fs, name) == [f \in {} |-> fs[f]]

\* As With, installing nothing.
WithNothing(fs, name, force) == fs

Without(fs, name) == [f \in DOMAIN fs \ {name} |-> fs[f]]
With(fs, name, force) ==
    [f \in DOMAIN fs \cup {name} |-> IF f = name THEN force ELSE fs[f]]

\* #timeline-toggle change: simulation.force('y', checked ? forceY : null),
\* then simulation.alpha(0.4).restart()
TimelineToggle ==
    /\ phase = "ready"
    /\ timelineChecked' = ~timelineChecked
    /\ forces' = IF timelineChecked'
                  THEN With(forces, "y", ForceY(birthYear, globalYScale))
                  ELSE Without(forces, "y")
    /\ alpha' = ALPHA_TOGGLE
    /\ running' = TRUE
    /\ UNCHANGED << dataVars, pageVars, pickVars, styleVars, transform, innerHeight,
                    nodeX, nodeY, nodeFx,
                    nodeFy, alphaTarget, gesture, activeSchoolFilter, phase >>

\* window resize: simulation.force('center', null), then alpha(0.2).restart()
Resize ==
    /\ phase = "ready"
    /\ \E h \in Heights : innerHeight' = h
    /\ forces' = Without(forces, "center")
    /\ alpha' = ALPHA_RESIZE
    /\ running' = TRUE
    /\ UNCHANGED << dataVars, pageVars, pickVars, styleVars, transform,
                    nodeX, nodeY, nodeFx, nodeFy,
                    alphaTarget, timelineChecked, gesture, activeSchoolFilter,
                    phase >>

\* nodeElements.style('opacity', 1).style('pointer-events', 'all');
\* linkElements.style('opacity', 0.5)
clearSchoolFilter ==
    /\ phase = "ready"
    /\ activeSchoolFilter' = NoFilter
    /\ nodeOpacity' = [i \in DOMAIN nodeOpacity |-> Num(100)]
    /\ nodePointerEvents' = [i \in DOMAIN nodePointerEvents |-> "all"]
    /\ linkOpacity' = [l \in DOMAIN linkOpacity |-> Num(50)]
    /\ legendActive' = {}
    /\ legendInactive' = {}
    /\ showAllDisplay' = "none"
    /\ UNCHANGED << dataVars, pageVars, pickVars, transform, innerHeight, nodeX, nodeY,
                    legendItems,
                    nodeFx, nodeFy, forces, alpha, alphaTarget, running,
                    timelineChecked, gesture, phase >>

\* As Dimmed, with every node left at full opacity.
NeverDimmed(school, own) == Num(100)

\* d => d.school === school ? 1 : 0.08
Dimmed(school, own) == IF own = school THEN Num(100) ELSE Num(8)

\* d => d.school === school ? 'all' : 'none'
Enabled(school, own) == IF own = school THEN "all" ELSE "none"

\* d => (d.source.school === school || d.target.school === school) ? 0.7 : 0.03
LinkDimmed(school, l) ==
    IF nodes[l.source].school = school \/ nodes[l.target].school = school
    THEN Num(70) ELSE Num(3)

\* As ActiveItems, with classList.add in the place of classList.toggle.
ActiveItemsAdded(items, was, school) == was \cup {l \in items : l = school}

\* el.classList.toggle('active', label === school), for every legend item
ActiveItems(items, was, school) == {l \in items : l = school}

toggleSchoolFilter(school) ==
    IF activeSchoolFilter = school
    THEN clearSchoolFilter
    ELSE /\ phase = "ready"
         /\ activeSchoolFilter' = school
         /\ nodeOpacity' = [i \in DOMAIN nodeOpacity |->
                               Dimmed(school, nodes[i].school)]
         /\ nodePointerEvents' = [i \in DOMAIN nodePointerEvents |->
                                     Enabled(school, nodes[i].school)]
         /\ linkOpacity' = [l \in DOMAIN linkOpacity |->
                               LinkDimmed(school, links[l])]
         /\ legendActive' = ActiveItems(legendItems, legendActive, school)
         /\ legendInactive' = {l \in legendItems : l # school}
         /\ showAllDisplay' = "block"
         /\ UNCHANGED << dataVars, pageVars, pickVars, transform, innerHeight, nodeX,
                         legendItems,
                         nodeY, nodeFx, nodeFy, forces, alpha, alphaTarget,
                         running, timelineChecked, gesture, phase >>

\* A click on a legend entry (one per present school) or on 'Show All'
LegendClick == \E school \in legendItems : toggleSchoolFilter(school)
ShowAll     == activeSchoolFilter # NoFilter /\ clearSchoolFilter

\* As Incident, looking at the source of a link only.
IncidentAsSource(ls, i) == {l \in DOMAIN ls : ls[l].source = i}

\* d => d.source.id === node.id || d.target.id === node.id
Incident(ls, i) == {l \in DOMAIN ls : ls[l].source = i \/ ls[l].target = i}

\* nodeElements.classed('selected', d => d === selectedNode)
\*             .classed('search-match', d => searchMatches.includes(d))
updateNodeStyles ==
    /\ selectedClass' = {i \in DOMAIN nodes : i = selectedNode'}
    /\ matchClass' = {i \in DOMAIN nodes : i \in searchMatches'}

\* The modal that onNodeClick opens holds nothing the layout or the
\* highlighting reads.
onNodeClick(d) ==
    /\ phase = "ready"
    /\ selectedNode' = d
    /\ searchMatches' = searchMatches
    /\ updateNodeStyles
    /\ highlighted' = Incident(links, d)
    /\ UNCHANGED << dataVars, pageVars, styleVars, transform, innerHeight, nodeX, nodeY,
                    nodeFx, nodeFy, forces, alpha, alphaTarget, running,
                    timelineChecked, gesture, activeSchoolFilter, phase >>

NodeClick == /\ phase = "ready"
             /\ \E d \in DOMAIN nodes : Interactive(d) /\ onNodeClick(d)

\* Names and queries are sequences of characters.
UpperCase == << "A", "B", "C", "D", "E", "F", "G", "H", "I", "J", "K", "L", "M",
               "N", "O", "P", "Q", "R", "S", "T", "U", "V", "W", "X", "Y", "Z" >>
LowerCase == << "a", "b", "c", "d", "e", "f", "g", "h", "i", "j", "k", "l", "m",
               "n", "o", "p", "q", "r", "s", "t", "u", "v", "w", "x", "y", "z" >>
ToLowerChar(c) == IF c \in Range(UpperCase)
                  THEN LowerCase[CHOOSE k \in DOMAIN UpperCase : UpperCase[k] = c]
                  ELSE c
ToLowerCase(w) == [k \in DOMAIN w |-> ToLowerChar(w[k])]
RECURSIVE TrimStart(_)
TrimStart(w) == IF w # << >> /\ Head(w) = " " THEN TrimStart(Tail(w)) ELSE w
RECURSIVE TrimEnd(_)
TrimEnd(w) == IF w # << >> /\ w[Len(w)] = " "
              THEN TrimEnd(SubSeq(w, 1, Len(w) - 1)) ELSE w
Trim(w) == TrimEnd(TrimStart(w))
Includes(w, q) ==
    \E k \in 1 .. (Len(w) - Len(q) + 1) : SubSeq(w, k, k + Len(q) - 1) = q

\* q ? graphData.nodes.filter(n => n.name.toLowerCase().includes(q)) : []
Matches(ns, q) ==
    IF q = << >> THEN {}
    ELSE {i \in DOMAIN ns : Includes(ToLowerCase(ns[i].name), q)}

\* #search-input input
searchInput(value) ==
    /\ phase = "ready"
    /\ searchMatches' = Matches(nodes, Trim(ToLowerCase(value)))
    /\ selectedNode' = selectedNode
    /\ updateNodeStyles
    /\ UNCHANGED << dataVars, pageVars, styleVars, transform, highlighted, innerHeight,
                    nodeX, nodeY, nodeFx, nodeFy, forces, alpha, alphaTarget,
                    running, timelineChecked, gesture, activeSchoolFilter,
                    phase >>

Queries == { << >>, << "K", "e" >>, << " ", "a", "y", " " >> }
Search  == \E value \in Queries : searchInput(value)

\* As zoomed, with the translation written into the nodes' coordinates.
zoomedInPlace(t) ==
    /\ phase = "ready"
    /\ transform' = t
    /\ nodeX' = [i \in DOMAIN nodeX |-> JAdd(nodeX[i], Num(t.x))]
    /\ nodeY' = [i \in DOMAIN nodeY |-> JAdd(nodeY[i], Num(t.y))]
    /\ UNCHANGED << dataVars, pageVars, pickVars, styleVars, innerHeight,
                    nodeFx, nodeFy, forces, alpha, alphaTarget, running,
                    timelineChecked, gesture, activeSchoolFilter, phase >>

\* zoom.on('zoom', () => g.attr('transform', d3.event.transform)), with the
\* scale kept inside scaleExtent([0.05, 6])
zoomed(t) ==
    /\ phase = "ready"
    /\ transform' = t
    /\ UNCHANGED << dataVars, pageVars, pickVars, styleVars, innerHeight, nodeX, nodeY,
                    nodeFx, nodeFy, forces, alpha, alphaTarget, running,
                    timelineChecked, gesture, activeSchoolFilter, phase >>

ZoomTransforms == { [k |-> 600, x |-> -50, y |-> 40] }
Zoom == \E t \in ZoomTransforms : zoomed(t)

\* The dataset the interactions are explored on, and its link lists
UINodes ==
    << [school |-> "Keynesian", born |-> Born1950, name |-> << "K", "e", "y" >>],
       [school |-> "Other",     born |-> Born1850, name |-> << "H", "a", "y", "e", "k" >>],
       [school |-> "Keynesian", born |-> Born1850, name |-> << "M", "a", "r", "x" >>] >>
UILinks ==
    { << [source |-> 1, target |-> 2], [source |-> 3, target |-> 2],
         [source |-> 3, target |-> 3] >> }

InitUI ==
    /\ nodes = UINodes
    /\ links \in UILinks
    /\ innerHeight = SetMax(Heights)
    /\ tzOffset = 0
    /\ PageLoaded

\* The mouse alone: pressed on a node it starts a drag, released it ends it
MouseDown == /\ phase = "ready"
             /\ \E i \in DOMAIN nodes : Interactive(i) /\ dragStarted("mouse", i)
MouseUp   == dragEnded("mouse")

NextUI == \/ Boot \/ Tick \/ MouseDown \/ MouseUp \/ NodeClick \/ Search
          \/ Zoom \/ LegendClick \/ ShowAll

SpecUI == InitUI /\ [][NextUI]_vars

\* Everything but the browse page and the landing screen
vizVars == << nodes, birthYear, appBirthYear, schoolColumns, globalYScale,
              innerHeight, tzOffset, nodeX, nodeY, nodeFx, nodeFy, forces,
              alpha, alphaTarget, running, timelineChecked, gesture,
              activeSchoolFilter, links, adj, pickVars, styleVars, transform,
              repeats >>

\* app.js ERAS: label, min (inclusive) and max (exclusive); the first era has
\* no lower and the last no upper end.
ERAS ==
    << [label |-> "Pre-1700",     lo |-> FALSE, min |-> 0,    hi |-> TRUE,  max |-> 1700],
       [label |-> "1700-1790",    lo |-> TRUE,  min |-> 1700, hi |-> TRUE,  max |-> 1790],
       [label |-> "Classical",    lo |-> TRUE,  min |-> 1790, hi |-> TRUE,  max |-> 1870],
       [label |-> "Neoclassical", lo |-> TRUE,  min |-> 1870, hi |-> TRUE,  max |-> 1920],
       [label |-> "Interwar",     lo |-> TRUE,  min |-> 1920, hi |-> TRUE,  max |-> 1950],
       [label |-> "Postwar",      lo |-> TRUE,  min |-> 1950, hi |-> TRUE,  max |-> 1975],
       [label |-> "Contemporary", lo |-> TRUE,  min |-> 1975, hi |-> FALSE, max |-> 0] >>

InEra(year, e) == /\ (e.lo => year >= e.min)
                  /\ (e.hi => year < e.max)

\* getEraLabel(year): the first era that holds the year, the last era for
\* null
getEraLabel(year) ==
    IF ~IsNum(year) THEN ERAS[Len(ERAS)].label
    ELSE IF \E k \in DOMAIN ERAS : InEra(year.v, ERAS[k])
         THEN ERAS[SetMin({k \in DOMAIN ERAS : InEra(year.v, ERAS[k])})].label
         ELSE ERAS[Len(ERAS)].label

\* nodeMatches(n)
nodeMatches(n, by, schools, eras, query) ==
    /\ ~(schools # {} /\ n.school \notin schools)
    /\ ~(eras # {} /\ getEraLabel(by) \notin eras)
    /\ ~(query # << >> /\ ~Includes(ToLowerCase(n.name), query))

\* renderTimeline: nodes.filter(nodeMatches)
renderTimeline(by, schools, eras, query) ==
    listed' = {i \in DOMAIN nodes :
                  nodeMatches(nodes[i], by[i], schools, eras, query)}

\* app.js, DATA PREP: the birth years and the adjacency sets of the timeline
\* browse view.
prepareData ==
    /\ phase = "loaded"
    /\ appBirthYear' = [i \in DOMAIN nodes |-> AppBirthYear(nodes[i].born)]
    /\ buildAdj
    /\ renderTimeline(appBirthYear', activeSchools, activeEras, searchQuery)
    /\ phase' = "browse"
    /\ UNCHANGED << nodes, links, birthYear, schoolColumns, globalYScale,
                    tzOffset, innerHeight, nodeX, nodeY, nodeFx, nodeFy,
                    forces, alpha, alphaTarget, running, timelineChecked,
                    gesture, activeSchoolFilter, pickVars, styleVars, transform,
                    repeats, activeSchools, activeEras, searchQuery, searchBox,
                    searchTimer, detailVars, landingVars, otherPages >>

\* Link lists over the ids of two present nodes and one id (3) of no node
MaxLinks == 3
LinkIds == 1 .. 3
LinkRecords == [source : LinkIds, target : LinkIds]
AdjNodes == << [school |-> "Keynesian", born |-> Born1950],
               [school |-> "Other",     born |-> Born1850] >>

InitAdj ==
    /\ nodes = AdjNodes
    /\ links \in SeqsUpTo(LinkRecords, MaxLinks)
    /\ innerHeight = SetMax(Heights)
    /\ tzOffset = 0
    /\ PageLoaded

\* makeRow: const connCount = (adj[n.id] || new Set()).size
connCount(i) ==
    IF StringOf(i) \in DOMAIN adj THEN Cardinality(adj[StringOf(i)]) ELSE 0

SpecAdj == InitAdj /\ [][prepareData]_vars

\* The timeline browse page: filters, debounced search, reset

\* What is left alone by a handler of the filter bar
filterFrame == UNCHANGED << vizVars, appBirthYear, phase, detailVars,
                            landingVars, otherPages >>

\* toggleSchool(s)
toggleSchool(s) ==
    /\ phase = "browse"
    /\ activeSchools' = IF s \in activeSchools THEN activeSchools \ {s}
                         ELSE activeSchools \cup {s}
    /\ renderTimeline(appBirthYear, activeSchools', activeEras, searchQuery)
    /\ UNCHANGED << activeEras, searchQuery, searchBox, searchTimer >>
    /\ filterFrame

\* toggleEra(label)
toggleEra(label) ==
    /\ phase = "browse"
    /\ activeEras' = IF label \in activeEras THEN activeEras \ {label}
                      ELSE activeEras \cup {label}
    /\ renderTimeline(appBirthYear, activeSchools, activeEras', searchQuery)
    /\ UNCHANGED << activeSchools, searchQuery, searchBox, searchTimer >>
    /\ filterFrame

\* The 'input' listener of either search box: the other box is given the
\* same value, and handleSearch(val) replaces the pending timer.
handleSearch(val) ==
    /\ phase = "browse"
    /\ val # searchBox
    /\ searchBox' = val
    /\ searchTimer' = << val >>
    /\ UNCHANGED << activeSchools, activeEras, searchQuery, listed >>
    /\ filterFrame

\* The callback of handleSearch's setTimeout, 180 ms later
searchTimerFires ==
    /\ phase = "browse"
    /\ searchTimer # << >>
    /\ searchQuery' = ToLowerCase(Trim(searchTimer[1]))
    /\ renderTimeline(appBirthYear, activeSchools, activeEras, searchQuery')
    /\ searchTimer' = << >>
    /\ UNCHANGED << activeSchools, activeEras, searchBox >>
    /\ filterFrame

\* resetFilters: nothing in it touches searchTimer
resetFilters ==
    /\ phase = "browse"
    /\ activeSchools' = {}
    /\ activeEras' = {}
    /\ searchQuery' = << >>
    /\ searchBox' = << >>
    /\ searchTimer' = searchTimer
    /\ renderTimeline(appBirthYear, activeSchools', activeEras', searchQuery')
    /\ filterFrame

\* The filter items clicked: one per school of the data, and two eras
EraClicks == {"Postwar", "Classical"}
SchoolClick == \E i \in DOMAIN nodes : toggleSchool(nodes[i].school)
EraClick    == \E label \in EraClicks : toggleEra(label)
TypeSearch  == \E val \in Queries : handleSearch(val)

\* url: "wiki" stands for an address with a /wiki/ part, "plain" for one
\* without, "" for none.
BrowseNodes ==
    << [school |-> "Keynesian", born |-> Born1950, name |-> << "K", "e", "y" >>,
        url |-> "wiki"],
       [school |-> "Other",     born |-> Born1850, name |-> << "H", "a", "y" >>,
        url |-> "wiki"],
       [school |-> "Other",     born |-> Born1950, name |-> << "M", "a" >>,
        url |-> ""] >>

InitSearch ==
    /\ nodes = BrowseNodes
    /\ links = << [source |-> 1, target |-> 2] >>
    /\ innerHeight = SetMax(Heights)
    /\ tzOffset = 0
    /\ PageLoaded

NextSearch == prepareData \/ SchoolClick \/ EraClick \/ TypeSearch
                \/ searchTimerFires \/ resetFilters
SpecSearch == InitSearch /\ [][NextSearch]_vars

\* The detail panel of the browse page and the landing screen

detailFrame == UNCHANGED << vizVars, appBirthYear, phase, searchVars,
                            otherPages >>

MaxOpens == 2

\* fetchBio(n) up to the request: the text it leaves in #detail-bio
BioAtOpen(n) ==
    IF nodes[n].url = "" THEN [kind |-> "nourl", of |-> n]
    ELSE IF nodes[n].url # "wiki" THEN [kind |-> "unavailable", of |-> n]
    ELSE [kind |-> "loading", of |-> n]

\* openDetail(n): the panel is filled and shown, the biography is requested
\* and renderMiniNetwork(n) is scheduled 50 ms later.
openDetail(n) ==
    /\ phase = "browse"
    /\ opens < MaxOpens
    /\ opens' = opens + 1
    /\ appSelected' = n
    /\ panelHidden' = FALSE
    /\ bioText' = BioAtOpen(n)
    /\ fetches' = IF nodes[n].url = "wiki"
                   THEN fetches \cup {[n |-> n, k |-> opens']} ELSE fetches
    /\ miniSvg' = 0
    /\ miniTimers' = miniTimers \cup {[n |-> n, k |-> opens']}
    /\ UNCHANGED miniSims
    /\ detailFrame

\* closeDetail()
closeDetail ==
    /\ phase = "browse"
    /\ ~panelHidden
    /\ panelHidden' = TRUE
    /\ appSelected' = 0
    /\ UNCHANGED << bioText, fetches, miniTimers, miniSims, miniSvg, opens,
                    landingVars >>
    /\ detailFrame

\* As Stale, with no response taken for stale.
NeverStale(sel, n) == FALSE

\* if (selectedNode && selectedNode.id !== n.id) return; // stale
Stale(sel, n) == sel # 0 /\ sel # n

\* The response, or the failure, of a biography request arrives.
BioOutcomes == {"extract", "nosummary", "error"}
bioResponse(f, outcome) ==
    /\ phase = "browse"
    /\ fetches' = fetches \ {f}
    /\ bioText' = IF Stale(appSelected, f.n) THEN bioText
                   ELSE [kind |-> outcome, of |-> f.n]
    /\ UNCHANGED << appSelected, panelHidden, miniTimers, miniSims, miniSvg,
                    opens, landingVars >>
    /\ detailFrame
BioArrives == \E f \in fetches : \E outcome \in BioOutcomes : bioResponse(f, outcome)

\* nodeById[id] for the members of adj[n.id]: the neighbours that are nodes
PresentNeighbourIds(n) ==
    {i \in DOMAIN nodes : StringOf(i) \in adj[StringOf(n)]}

\* renderMiniNetwork(n), run by its timer: the container is emptied; with
\* neighbours listed a new simulation is created and its svg appended.
renderMiniNetwork(t) ==
    /\ phase = "browse"
    /\ miniTimers' = miniTimers \ {t}
    /\ IF adj[StringOf(t.n)] = {}
       THEN /\ miniSvg' = 0
            /\ UNCHANGED miniSims
       ELSE /\ miniSvg' = t.k
            /\ miniSims' = [k \in DOMAIN miniSims \cup {t.k} |->
                                IF k = t.k THEN ALPHA_INITIAL ELSE miniSims[k]]
    /\ UNCHANGED << appSelected, panelHidden, bioText, fetches, opens,
                    landingVars >>
    /\ detailFrame
MiniTimerFires == \E t \in miniTimers : renderMiniNetwork(t)

\* A tick of a mini-network simulation: it cools, and its timer stops once
\* alpha is below alphaMin.
miniTick(k) ==
    /\ phase = "browse"
    /\ miniSims' = IF BelowAlphaMin(Cool(miniSims[k], 0))
                    THEN [j \in DOMAIN miniSims \ {k} |-> miniSims[j]]
                    ELSE [miniSims EXCEPT ![k] = Cool(miniSims[k], 0)]
    /\ UNCHANGED << appSelected, panelHidden, bioText, fetches, miniTimers,
                    miniSvg, opens, landingVars >>
    /\ detailFrame
MiniTick == \E k \in DOMAIN miniSims : miniTick(k)

\* Clicks that open the panel: a row of the list, an item of the connections
\* list, a neighbour in the mini network.
RowClick == \E i \in listed : openDetail(i) /\ UNCHANGED landingVars
ConnectionClick ==
    /\ appSelected # 0 /\ ~panelHidden
    /\ \E i \in PresentNeighbourIds(appSelected) :
           openDetail(i) /\ UNCHANGED landingVars
MiniNodeClick ==
    /\ miniSvg # 0 /\ appSelected # 0 /\ ~panelHidden
    /\ \E i \in PresentNeighbourIds(appSelected) :
           openDetail(i) /\ UNCHANGED landingVars

\* initLanding, on window load: the sample is those nodes that have a url
\* and a name, and runAnimation starts a simulation on it.
pickSample == {i \in DOMAIN nodes : nodes[i].url # "" /\ nodes[i].name # << >>}
initLanding ==
    /\ phase = "browse"
    /\ landing = "loading"
    /\ landing' = "shown"
    /\ landingSim' = ALPHA_INITIAL
    /\ UNCHANGED << landingTimers, detailVars >>
    /\ detailFrame

landingTick ==
    /\ phase = "browse"
    /\ landingSim > 0
    /\ landingSim' = IF BelowAlphaMin(Cool(landingSim, 0)) THEN 0
                      ELSE Cool(landingSim, 0)
    /\ UNCHANGED << landing, landingTimers, detailVars >>
    /\ detailFrame

\* if (animResult) animResult.sim.stop()
StoppedSim(a) == 0

\* dismiss(): the simulation is stopped and the overlay starts to fade
dismiss ==
    /\ landingSim' = StoppedSim(landingSim)
    /\ landing' = "hiding"

\* A click on the start button
StartClick ==
    /\ phase = "browse"
    /\ landing \in {"shown", "hiding"}
    /\ dismiss
    /\ UNCHANGED << landingTimers, detailVars >>
    /\ detailFrame

\* A click on a node of the landing network: dismiss, and openDetail 480 ms
\* later
LandingNodeClick ==
    /\ phase = "browse"
    /\ landing \in {"shown", "hiding"}
    /\ dismiss
    /\ \E i \in pickSample : landingTimers' = landingTimers \cup {i}
    /\ UNCHANGED detailVars
    /\ detailFrame

\* setTimeout(function () { overlay.style.display = 'none'; }, 450)
OverlayGone ==
    /\ phase = "browse"
    /\ landing = "hiding"
    /\ landing' = "gone"
    /\ UNCHANGED << landingSim, landingTimers, detailVars >>
    /\ detailFrame

LandingTimerFires ==
    \E i \in landingTimers :
        /\ openDetail(i)
        /\ landingTimers' = landingTimers \ {i}
        /\ UNCHANGED << landing, landingSim >>

CloseClick == closeDetail

NextDetail == prepareData \/ initLanding \/ landingTick \/ StartClick
                \/ LandingNodeClick \/ OverlayGone \/ LandingTimerFires
                \/ RowClick \/ ConnectionClick \/ MiniNodeClick \/ CloseClick
                \/ BioArrives \/ MiniTimerFires \/ MiniTick
SpecDetail == InitSearch /\ [][NextDetail]_vars

\* The research assistant (research.js)

researchFrame == UNCHANGED << vizVars, appBirthYear, phase, searchVars,
                              detailVars, landingVars, debateVars >>

\* The names of eg.nodeById, in insertion order
ResearchNames ==
    << << "J", " ", "M", "i", "l", "l" >>, << "M", "a", "r", "x" >>,
       << "S", "a", "y" >>, << "L", "i" >>, << "N", "g" >>, << "W", "u" >>,
       << "X", "u" >> >>

\* parts[parts.length - 1] of name.split(' ')
RECURSIVE LastPart(_)
LastPart(w) == IF w = << >> \/ w[Len(w)] = " " THEN << >>
               ELSE Append(LastPart(SubSeq(w, 1, Len(w) - 1)), w[Len(w)])

\* findNameHits(q): the nodes whose last name has four letters or more and is
\* part of the query, in the order of nodeById
IsNameHit(i, q) == /\ Len(LastPart(ResearchNames[i])) >= 4
                   /\ Includes(ToLowerCase(q), ToLowerCase(LastPart(ResearchNames[i])))
findNameHits(q) == LET Hit(i) == IsNameHit(i, q)
                   IN  SelectSeq([i \in DOMAIN ResearchNames |-> i], Hit)

\* What searchNodes may return: up to six distinct nodes, best first.  The
\* ranking is MiniSearch's.
RankedLists == { << >>, << 2, 1 >>, << 3, 4, 5, 6, 7, 2 >> }

\* Name hits first, then the ranked results, each node once
TopNodes(hits, ranked) == Distinct(hits \o ranked)

\* topNodes.slice(0, 6)
Slice6(w) == IF Len(w) <= 6 THEN w ELSE SubSeq(w, 1, 6)

MaxSearches == 2

\* runSearch(queryStr) up to the requests
runSearch(q) ==
    /\ phase = "browse"
    /\ issued < MaxSearches
    /\ issued' = issued + 1
    /\ latestQuery' = q
    /\ IF Trim(q) = << >>
       THEN /\ researchShown' = [kind |-> "empty", q |-> q, cards |-> << >>]
            /\ UNCHANGED contextPending
       ELSE /\ researchShown' = [kind |-> "loading", q |-> q, cards |-> << >>]
            /\ contextPending' = contextPending \cup {[q |-> q, k |-> issued']}
    /\ UNCHANGED summaryPending
    /\ researchFrame

\* The Wikipedia context of a search arrives (or fails, which gives ''):
\* the result list is put together and the summaries are requested.
contextArrives(r, ranked) ==
    /\ phase = "browse"
    /\ contextPending' = contextPending \ {r}
    /\ \E final \in {Slice6(TopNodes(findNameHits(r.q), ranked))} :
          IF final = << >>
          THEN /\ researchShown' = [kind |-> "none", q |-> r.q, cards |-> << >>]
               /\ UNCHANGED summaryPending
          ELSE /\ summaryPending' = summaryPending
                                       \cup {[q |-> r.q, k |-> r.k, final |-> final]}
               /\ UNCHANGED researchShown
    /\ UNCHANGED << issued, latestQuery >>
    /\ researchFrame

\* Promise.allSettled of the summaries: the cards are written
summariesArrive(r) ==
    /\ phase = "browse"
    /\ summaryPending' = summaryPending \ {r}
    /\ researchShown' = [kind |-> "cards", q |-> r.q, cards |-> r.final]
    /\ UNCHANGED << contextPending, issued, latestQuery >>
    /\ researchFrame

ResearchQueries ==
    { << " " >>, << "m", "i", "l", "l" >>,
      << "M", "a", "r", "x", " ", "o", "n", " ", "M", "i", "l", "l" >> }

Submit == \E q \in ResearchQueries : runSearch(q)
ContextArrives == \E r \in contextPending : \E ranked \in RankedLists :
                      contextArrives(r, ranked)
SummariesArrive == \E r \in summaryPending : summariesArrive(r)

NextResearch == prepareData \/ Submit \/ ContextArrives \/ SummariesArrive
SpecResearch == InitSearch /\ [][NextResearch]_vars

\* The debates page (debates.js): resolveDebate

debateFrame == UNCHANGED << vizVars, appBirthYear, phase, searchVars,
                            detailVars, landingVars, researchVars >>

\* normName(s): lower case, everything but a-z and the space removed, trimmed
IsLetterOrSpace(c) == c = " " \/ c \in Range(LowerCase)
normName(w) == Trim(SelectSeq(ToLowerCase(w), IsLetterOrSpace))

\* norm.split(' ').filter(Boolean)
FirstSpace(w) == IF " " \in Range(w)
                 THEN SetMin({k \in DOMAIN w : w[k] = " "}) ELSE Len(w) + 1
RECURSIVE Words(_)
Words(w) ==
    IF w = << >> THEN << >>
    ELSE IF Head(w) = " " THEN Words(Tail(w))
    ELSE << SubSeq(w, 1, FirstSpace(w) - 1) >>
             \o Words(SubSeq(w, FirstSpace(w), Len(w)))

\* buildLookup: _lookup[normName(n.name)] = n, a later node replacing an
\* earlier one of the same normalised name; 0 stands for no node
Lookup(norm) ==
    IF \E i \in DOMAIN nodes : normName(nodes[i].name) = norm
    THEN SetMax({i \in DOMAIN nodes : normName(nodes[i].name) = norm})
    ELSE 0

\* The fallback of findNode: the first node whose first and last word match
SameEnds(parts, np) == /\ Len(np) >= 2
                       /\ np[1] = parts[1]
                       /\ np[Len(np)] = parts[Len(parts)]
findNode(name) ==
    LET norm  == normName(name)
        parts == Words(norm)
        Fits(i) == SameEnds(parts, Words(normName(nodes[i].name)))
    IN  IF Lookup(norm) # 0 THEN Lookup(norm)
        ELSE IF Len(parts) >= 2 /\ \E i \in DOMAIN nodes : Fits(i)
             THEN SetMin({i \in DOMAIN nodes : Fits(i)})
             ELSE 0

\* As addB, looking at seenB only.
addBUnchecked(st, n) ==
    IF n = 0 \/ n \in Range(st.nodesB) THEN st
    ELSE [st EXCEPT !.nodesB = Append(@, n)]

\* addA(n), addB(n): if (!n || seenA[n.id] || seenB[n.id]) return
addA(st, n) ==
    IF n = 0 \/ n \in Range(st.nodesA) \/ n \in Range(st.nodesB) THEN st
    ELSE [st EXCEPT !.nodesA = Append(@, n)]
addB(st, n) ==
    IF n = 0 \/ n \in Range(st.nodesA) \/ n \in Range(st.nodesB) THEN st
    ELSE [st EXCEPT !.nodesB = Append(@, n)]

\* 1. Force-listed names
RECURSIVE NamesToA(_, _)
NamesToA(st, names) ==
    IF names = << >> THEN st
    ELSE NamesToA(addA(st, findNode(Head(names))), Tail(names))
RECURSIVE NamesToB(_, _)
NamesToB(st, names) ==
    IF names = << >> THEN st
    ELSE NamesToB(addB(st, findNode(Head(names))), Tail(names))

\* 2. School-based matching, over graph.nodes from node i on
RECURSIVE BySchool(_, _, _)
BySchool(st, d, i) ==
    IF i > Len(nodes) THEN st
    ELSE IF i \in Range(st.nodesA) \/ i \in Range(st.nodesB)
         THEN BySchool(st, d, i + 1)
    ELSE IF nodes[i].school \in d.schoolsA THEN BySchool(addA(st, i), d, i + 1)
    ELSE IF nodes[i].school \in d.schoolsB THEN BySchool(addB(st, i), d, i + 1)
    ELSE BySchool(st, d, i + 1)

\* (a._debYear || 9999), _debYear being birthYearOf(n)
YearKey(i) ==
    LET y == birthYearOf(nodes[i].born, appBirthYear[i])
    IN  IF Truthy(y) THEN y.v ELSE 9999

\* Array.prototype.sort by that key; the sort is stable
RECURSIVE SortByYear(_)
SortByYear(w) ==
    IF w = << >> THEN << >>
    ELSE LET front == SortByYear(SubSeq(w, 1, Len(w) - 1))
             last  == w[Len(w)]
             keep  == Cardinality({k \in DOMAIN front :
                                      YearKey(front[k]) <= YearKey(last)})
         IN  SubSeq(front, 1, keep) \o << last >>
                 \o SubSeq(front, keep + 1, Len(front))

Resolution(d) ==
    LET named == NamesToB(NamesToA([nodesA |-> << >>, nodesB |-> << >>],
                                   d.namesA), d.namesB)
        all   == BySchool(named, d, 1)
    IN  [nodesA |-> SortByYear(all.nodesA), nodesB |-> SortByYear(all.nodesB)]

MaxCalls == 2

\* resolveDebate(debate): the memoized result, or a new one that is memoized
resolveDebate ==
    /\ phase = "browse"
    /\ calls < MaxCalls
    /\ calls' = calls + 1
    /\ IF resolved # << >>
       THEN /\ returned' = resolved
            /\ UNCHANGED resolved
       ELSE /\ resolved' = << Resolution(debate) >>
            /\ returned' = resolved'
    /\ UNCHANGED debate
    /\ debateFrame

\* Two economists that normalise to one name, and a third
DebateNodeRecords ==
    { [school |-> "Keynesian", born |-> Born1950,
       name |-> << "J", " ", "M", "i", "l", "l" >>],
      [school |-> "Keynesian", born |-> Born1850,
       name |-> << "J", ".", " ", "M", "i", "l", "l" >>],
      [school |-> "Other", born |-> Undef,
       name |-> << "M", "a", "r", "x" >>] }
MaxDebateNodes == 3
DebateDatasets == SeqsUpTo(DebateNodeRecords, MaxDebateNodes)

NameLists == { << >>, << << "M", "a", "r", "x" >> >>,
               << << "J", " ", "S", " ", "M", "i", "l", "l" >>,
                  << "j", " ", "m", "i", "l", "l" >>,
                  << "M", "a", "r", "x" >> >> }
SchoolSets == { {}, {"Keynesian"}, {"Keynesian", "Other"} }
Debates == [namesA : NameLists, namesB : NameLists,
            schoolsA : SchoolSets, schoolsB : SchoolSets]

InitDebate ==
    /\ nodes \in DebateDatasets
    /\ links = << >>
    /\ innerHeight = SetMax(Heights)
    /\ tzOffset = 0
    /\ PageState
    /\ debate \in Debates

NextDebate == prepareData \/ resolveDebate
SpecDebate == InitDebate /\ [][NextDebate]_vars

\* Where the ticks leave linked nodes once the simulation has cooled: at
\* the balance of force 'x' and force 'link'.  d3.forceLink moves the source
\* of a link by (l - distance) / l * strength * (1 - bias) of the separation
\* and its target by the share bias, bias = count(source) / (count(source) +
\* count(target)); d3.forceX moves a node by strength * (target - x).  For
\* two nodes on one height of the timeline, each with this one link (bias
\* 1/2), farther apart than the link distance and farther than distanceMax
\* from every other node, the two forces cancel when each node stands
\*   strength_link * (gap - distance) / (2 * (strength_x + strength_link))
\* from its lane center toward the other.
LINK_DISTANCE == 40
DISTANCE_MAX == 120
Apart(a, b) == IF a >= b THEN a - b ELSE b - a

LinksOf(i) == {l \in DOMAIN links : links[l].source = i \/ links[l].target = i}
Partner(i) == LET l == CHOOSE m \in LinksOf(i) : TRUE
              IN  IF links[l].source = i THEN links[l].target ELSE links[l].source

\* Every node has at most one link, to another node of the same year and of
\* a different lane, and nodes that are not partners stay out of each
\* other's reach: the charge force ignores nodes farther than distanceMax.
PairedLinks ==
    /\ \A i \in DOMAIN nodes : Cardinality(LinksOf(i)) <= 1
    /\ \A i \in DOMAIN nodes :
           LinksOf(i) # {} => /\ Partner(i) # i
                              /\ birthYear[Partner(i)] = birthYear[i]
                              /\ AnchorX(Partner(i)) # AnchorX(i)
    /\ \A i, j \in DOMAIN nodes :
           (i # j /\ ~(LinksOf(i) # {} /\ Partner(i) = j)) =>
               \/ Apart(AnchorY(i), AnchorY(j)) > DISTANCE_MAX
               \/ /\ LinksOf(i) = {} /\ LinksOf(j) = {}
                  /\ Apart(AnchorX(i), AnchorX(j)) > DISTANCE_MAX
    /\ \A i \in DOMAIN nodes : IsNum(ApplyScale(globalYScale, birthYear[i]))

PairShift(gap) ==
    (forces["link"].strength * (gap - LINK_DISTANCE))
        \div (2 * (forces["x"].strength + forces["link"].strength))

SettledX(i) ==
    IF LinksOf(i) = {} THEN AnchorX(i)
    ELSE IF AnchorX(Partner(i)) > AnchorX(i)
         THEN AnchorX(i) + PairShift(AnchorX(Partner(i)) - AnchorX(i))
         ELSE AnchorX(i) - PairShift(AnchorX(i) - AnchorX(Partner(i)))

\* The ticks from set-up until the timer stops, taken together, with no
\* event in between.
Settle ==
    /\ phase = "ready"
    /\ running /\ alphaTarget = 0
    /\ \A p \in Pointers : gesture[p] = 0
    /\ \A f \in {"link", "x", "y"} : f \in DOMAIN forces
    /\ PairedLinks = TRUE
    /\ nodeX' = [i \in DOMAIN nodes |-> Num(SettledX(i))]
    /\ nodeY' = [i \in DOMAIN nodes |-> Num(AnchorY(i))]
    /\ alpha' = 0
    /\ running' = FALSE
    /\ UNCHANGED << dataVars, pageVars, pickVars, styleVars, transform, innerHeight,
                    nodeFx, nodeFy, forces, alphaTarget, timelineChecked,
                    gesture, activeSchoolFilter, phase >>

\* One node in each of the first n lanes of SCHOOL_ORDER; the nodes of the
\* first and of the last lane are of one year and linked.
MaxLanes == 12
LaneDataset(n) ==
    [i \in 1 .. n |-> [school |-> SCHOOL_ORDER[i],
                       born   |-> IF i \in {1, n} THEN Born1950 ELSE Born1850]]

InitLanes ==
    /\ \E n \in 2 .. MaxLanes : nodes = LaneDataset(n)
    /\ links = << [source |-> 1, target |-> Len(nodes)] >>
    /\ innerHeight \in Heights
    /\ tzOffset \in TzOffsets
    /\ PageLoaded

NextLanes == Boot \/ Settle
SpecLanes == InitLanes /\ [][NextLanes]_vars

\* The datasets the running simulation is explored on
SimDatasets ==
    { << [school |-> "Keynesian", born |-> Born1950],
         [school |-> "Other",     born |-> Born1850] >> }

InitSim ==
    /\ InitData
    /\ nodes \in SimDatasets
    /\ tzOffset = 0
    /\ innerHeight = SetMax(Heights)

NextSim == \/ Boot \/ Tick \/ DragStart \/ DragMove \/ DragEnd
           \/ TimelineToggle \/ Resize \/ LegendClick \/ ShowAll

SpecSim == InitSim /\ [][NextSim]_vars

\* The timer of a running simulation fires on every animation frame, so a
\* tick that stays possible is eventually taken.
SpecSimFair == SpecSim /\ WF_vars(Tick)

\* Every dataset, loaded and left to settle
NextSettle == Boot \/ Tick
SpecSettle == InitData /\ [][NextSettle]_vars

----------------------------------------------------------------------------
(* Drag and the solver *)

Pinned(i) == ~IsNullish(nodeFx[i]) /\ ~IsNullish(nodeFy[i])
Free(i)   == IsNullish(nodeFx[i]) /\ IsNullish(nodeFy[i])
Dragging  == \E p \in Pointers : gesture[p] # 0
Moved(i)  == nodeX'[i] # nodeX[i] \/ nodeY'[i] # nodeY[i]

\* C1: a drag sets the pin of its node to the coordinate it supplies, and
\* once the data is loaded pins change in drag handlers only; a tick leaves every pinned node at its
\* pin (no step that leaves one elsewhere is a tick); positions change in
\* ticks only.
\* Tick, with the conjuncts of it that need no choice of velocities first
TickStep ==
    /\ alpha' = Cool(alpha, alphaTarget)
    /\ UNCHANGED << nodeFx, nodeFy, gesture, alphaTarget >>
    /\ Tick

C1_Step ==
    /\ \A p \in Pointers :
           (gesture[p] # 0 /\ gesture' = gesture) =>
               \A e \in Box(gesture[p]) :
                   dragging(p, e[1], e[2])
                       => /\ nodeFx'[gesture[p]] = Num(e[1])
                          /\ nodeFy'[gesture[p]] = Num(e[2])
    /\ (nodeFx' # nodeFx \/ nodeFy' # nodeFy)
           => (DragMove \/ DragStart \/ DragEnd \/ Boot)
    /\ (\E i \in DOMAIN nodeX :
           Pinned(i) /\ ~(nodeX'[i] = nodeFx[i] /\ nodeY'[i] = nodeFy[i])) => ~TickStep
    /\ (nodeX' # nodeX \/ nodeY' # nodeY) => (TickStep \/ Boot)
C1_PinHolds == [][C1_Step]_vars

\* A dragged node held at its pin, off the place it was grabbed at, with the
\* solver settled at the temperature of a drag, beside a free node.
C1_Witness ==
    /\ phase = "ready"
    /\ alpha = ALPHA_DRAG /\ alphaTarget = ALPHA_DRAG
    /\ \E p \in Pointers :
          /\ gesture[p] # 0
          /\ Pinned(gesture[p])
          /\ nodeX[gesture[p]] = nodeFx[gesture[p]]
          /\ nodeY[gesture[p]] = nodeFy[gesture[p]]
          /\ nodeX[gesture[p]] # Num(AnchorX(gesture[p]))
          /\ \E j \in DOMAIN nodeX : j # gesture[p] /\ Free(j)

\* C2: the end of a drag clears both coordinates of the pin of its node, and
\* a tick moves every free node by the net velocity the forces give it, so
\* that its position changes when that velocity is not zero.
C2_Step ==
    /\ \A p \in Pointers :
           dragEnded(p) => (nodeFx'[gesture[p]] = JNull /\ nodeFy'[gesture[p]] = JNull)
    /\ \A os \in TickChoices :
           TickWith(Velocities(os)) => \A i \in DOMAIN nodeX :
               Free(i) => /\ nodeX'[i] = JAdd(nodeX[i], Num(Velocity(i, os[i])[1]))
                          /\ nodeY'[i] = JAdd(nodeY[i], Num(Velocity(i, os[i])[2]))
                          /\ (Velocity(i, os[i]) # <<0, 0>> => Moved(i))
C2_Release == [][C2_Step]_vars

\* The last drag has just ended: the solver is still at the temperature of
\* the drag, its target is back at zero and every node is free, one of them
\* still where the drag left it.
C2_Witness ==
    /\ phase = "ready"
    /\ alpha = ALPHA_DRAG /\ alphaTarget = 0 /\ running
    /\ ~Dragging
    /\ \A i \in DOMAIN nodeX : Free(i)
    /\ \E i, j \in DOMAIN nodeX : /\ nodeX[i] # Num(AnchorX(i))
                                   /\ nodeX[j] = Num(AnchorX(j))

\* C3: while a drag is in progress the target is the temperature of a drag,
\* which is not below the stopping threshold, and the solver runs; the target
\* is raised by a drag start only and lowered only by the end of the last
\* drag in progress.
C3_State ==
    Dragging => /\ alphaTarget = ALPHA_DRAG
                /\ ~BelowAlphaMin(alphaTarget)
                /\ running
C3_Step ==
    /\ (alphaTarget' > alphaTarget) => (DragStart /\ ~Dragging)
    /\ (alphaTarget' < alphaTarget) => (DragEnd /\ ~Dragging' /\ alphaTarget' = 0)
    /\ (Dragging /\ ~(running' /\ ~BelowAlphaMin(alpha'))) => ~TickStep
C3_DragKeepsRunning == []C3_State /\ [][C3_Step]_vars

\* Two drags in progress after the timeline was switched off, the window
\* resized and a filter chosen.
C3_Witness ==
    /\ \A p \in Pointers : gesture[p] # 0
    /\ running /\ alphaTarget = ALPHA_DRAG
    /\ ~timelineChecked
    /\ innerHeight # SetMax(Heights)
    /\ activeSchoolFilter # NoFilter

\* C4: with no drag in progress the target is zero; when from some point on
\* no drag is in progress and no toggle or resize happens, the solver
\* eventually stops with its temperature below the threshold, for good.
C4_Event == \/ timelineChecked' # timelineChecked /\ TimelineToggle
            \/ alpha' = ALPHA_RESIZE /\ Resize
C4_Quiet == <>[]~Dragging /\ <>[][~C4_Event]_vars
C4_Stops ==
    /\ [](phase = "ready" /\ ~Dragging => alphaTarget = 0)
    /\ C4_Quiet => <>[](~running /\ BelowAlphaMin(alpha))

\* The solver stopped after a drag: nodes are left where the drag put them.
C4_Witness ==
    /\ phase = "ready" /\ ~running /\ BelowAlphaMin(alpha) /\ alphaTarget = 0
    /\ ~Dragging
    /\ \A i \in DOMAIN nodeX : Free(i) /\ nodeX[i] # Num(AnchorX(i))

----------------------------------------------------------------------------
(* Timeline toggle, resize and filter *)

Installed(f) == f \in DOMAIN forces
Governed(i)  == IsNum(ApplyScale(globalYScale, birthYear[i]))
WithinTolerance(y, i) ==
    /\ IsNum(y)
    /\ \E o \in Offsets : y.v = ApplyScale(globalYScale, birthYear[i]).v + o[2]

\* C12: force 'y' is installed exactly when the toggle is checked, and
\* whenever it is installed it has the strength 0.9 and, for every node, the
\* target scale(year) it was created with; a tick with the force installed
\* leaves every free node that has a year within tolerance of that target.
C12_State ==
    phase = "ready" =>
        /\ Installed("y") <=> timelineChecked
        /\ Installed("y") =>
              /\ forces["y"].strength = 90
              /\ \A i \in DOMAIN nodes :
                     forces["y"].target[i] = ApplyScale(globalYScale, birthYear[i])
C12_Step ==
    (TickStep /\ Installed("y")) =>
        \A i \in DOMAIN nodes :
            (Free(i) /\ Governed(i)) => WithinTolerance(nodeY'[i], i)
C13_Step ==
    C4_Event =>
        /\ alpha' \in {ALPHA_TOGGLE, ALPHA_RESIZE}
        /\ ~BelowAlphaMin(alpha') /\ running'
        /\ alphaTarget' = alphaTarget
        /\ nodeX' = nodeX /\ nodeY' = nodeY
        /\ nodeFx' = nodeFx /\ nodeFy' = nodeFy
        /\ \A f \in {"link", "charge", "collision", "x"} :
               /\ f \in DOMAIN forces /\ f \in DOMAIN forces'
               /\ forces'[f] = forces[f]
DragBegins == \E p \in Pointers : gesture[p] = 0 /\ gesture'[p] # 0
C25_Step == (DragBegins \/ C4_Event) => alpha' >= alpha
C25_OnlyRaises == [][C25_Step]_vars

\* C14: a step that sets, switches or clears the school filter leaves the
\* simulation running at a temperature above the stopping threshold.
C14_Step ==
    (activeSchoolFilter' # activeSchoolFilter) =>
        (running' /\ ~BelowAlphaMin(alpha'))
C14_FilterReheats == [][C14_Step]_vars

\* C15: once the page is set up the range of the temporal scale, and with
\* it the target of force 'y' for every node, is the one computed from the
\* current height of the window.
C15_ScaleFollowsHeight ==
    phase = "ready" =>
        /\ globalYScale = MakeScale(birthYear, innerHeight)
        /\ Installed("y") =>
              \A i \in DOMAIN nodes :
                  forces["y"].target[i] =
                      ApplyScale(MakeScale(birthYear, innerHeight), birthYear[i])

----------------------------------------------------------------------------
(* Lane assignment *)

Ready == phase = "ready"

PresentSet    == {nodes[i].school : i \in DOMAIN nodes}
FirstSeen(s)  == SetMin({i \in DOMAIN nodes : nodes[i].school = s})
CanonPos(s)   == SetMin({j \in DOMAIN SCHOOL_ORDER : SCHOOL_ORDER[j] = s})
Listed(s)     == s \in Range(SCHOOL_ORDER)
LaneIndex(s)  == schoolColumns[s].index

\* s comes before t in the order the specification asks for
Before(s, t) ==
    \/ Listed(s) /\ ~Listed(t)
    \/ Listed(s) /\ Listed(t) /\ CanonPos(s) < CanonPos(t)
    \/ ~Listed(s) /\ ~Listed(t) /\ FirstSeen(s) < FirstSeen(t)

\* C5: after lane assignment the categories present in the data carry the
\* indices 0..k-1, each exactly once, listed categories first and in the
\* canonical order, unlisted ones after them in first-seen order, and every
\* lane's center is index * COLUMN_WIDTH + COLUMN_WIDTH / 2.
C5_LaneOrder ==
    Ready =>
        /\ PresentSet \subseteq DOMAIN schoolColumns
        /\ {LaneIndex(s) : s \in PresentSet} = 0 .. (Cardinality(PresentSet) - 1)
        /\ \A s, t \in PresentSet :
              /\ (s # t => LaneIndex(s) # LaneIndex(t))
              /\ (Before(s, t) => LaneIndex(s) < LaneIndex(t))
              /\ (s # t => schoolColumns[s].x # schoolColumns[t].x)
        /\ \A s \in PresentSet :
              schoolColumns[s].x
                  = LaneIndex(s) * COLUMN_WIDTH + COLUMN_WIDTH \div 2

\* An unlisted school given first and a listed one given second: the listed
\* one has lane 0, the unlisted one lane 1.
C5_Witness ==
    /\ Ready
    /\ Len(nodes) = 2
    /\ ~Listed(nodes[1].school) /\ Listed(nodes[2].school)
    /\ LaneIndex(nodes[2].school) = 0
    /\ LaneIndex(nodes[1].school) = 1

C6_State ==
    Ready =>
        /\ \A i \in DOMAIN nodes :
              /\ nodes[i].school \in DOMAIN schoolColumns
              /\ forces["x"].target[i] = Num(schoolColumns[nodes[i].school].x)
        /\ \A s \in Schools \ DOMAIN schoolColumns :
              ColumnX(schoolColumns, s)
                  = IF "Other" \in DOMAIN schoolColumns
                    THEN schoolColumns["Other"].x
                    ELSE COLUMN_WIDTH \div 2

C6_Step ==
    "Other" \in DOMAIN schoolColumns' =>
        \/ "Other" \in DOMAIN schoolColumns
        \/ \E i \in DOMAIN nodes' : nodes'[i].school = "Other"

C7_NoStaleLanes ==
    Ready =>
        /\ DOMAIN schoolColumns = PresentSet
        /\ {LaneIndex(s) : s \in DOMAIN schoolColumns}
               = 0 .. (Cardinality(PresentSet) - 1)

\* C22: lane assignment run again on the same dataset leaves the lane map as
\* it was: the same keys, indices and x positions.
C22_Step ==
    (phase = "ready" /\ nodes' = nodes /\ repeats' = repeats + 1) =>
        /\ schoolColumns' = schoolColumns
        /\ \A i \in DOMAIN nodes :
              forces'["x"].target[i] = forces["x"].target[i]
C22_Idempotent == [][C22_Step]_vars

\* Lane assignment has run twice on one dataset of two lanes, and the map is
\* what one run on that dataset gives.
C22_Witness ==
    /\ Ready
    /\ repeats = 1
    /\ Cardinality(PresentSet) = 2
    /\ schoolColumns = AssignLanes(<< >>, ordered(nodes))

----------------------------------------------------------------------------
(* Temporal scale and birth years *)

YearSamples == {1336, 1850, 1950, 1970}

\* C8 as stated: of two valid birth years the smaller one has the smaller
\* pixel (is nearer the top).
C8_OlderIsHigher ==
    Ready =>
        \A i, j \in DOMAIN nodes :
            (IsNum(birthYear[i]) /\ IsNum(birthYear[j])
                /\ birthYear[i].v < birthYear[j].v)
            => ScaleNum(globalYScale, birthYear[i].v)
                   < ScaleNum(globalYScale, birthYear[j].v)

Implausible(born) == ~IsNum(born) \/ born.v < BORN_CLAMP

\* C9 as stated: a missing or implausible timestamp has a null birth year in
\* the swimlane view, the timeline browse view and the debates view.
C9_NullYear ==
    Ready =>
        \A i \in DOMAIN nodes :
            Implausible(nodes[i].born)
            => /\ birthYear[i] = JNull
               /\ appBirthYear[i] = JNull
               /\ birthYearOf(nodes[i].born, appBirthYear[i]) = JNull

\* C10 as stated: with no valid year the scale returns one and the same
\* finite pixel for every year.
C10_DegenerateScale ==
    (Ready /\ ValidYears(birthYear) = {}) =>
        \E px \in 0 .. innerHeight :
            \A yr \in YearSamples : ApplyScale(globalYScale, Num(yr)) = Num(px)

\* The calendar year that contains the timestamp b, in UTC or in local time
CalendarYears(b) == {YearOfDay(b \div 864), YearOfDay((b + tzOffset) \div 864)}

\* C24: a node with a present timestamp not below the clamp, the epoch and
\* the second half of a year included, has the calendar year that contains
\* the timestamp as its birth year, the same one in the swimlane view, the
\* timeline browse view and the debates view.
C24_SameCalendarYear ==
    Ready =>
        \A i \in DOMAIN nodes :
            ~Implausible(nodes[i].born) =>
                \E y \in CalendarYears(nodes[i].born.v) :
                    /\ birthYear[i] = Num(y)
                    /\ appBirthYear[i] = Num(y)
                    /\ birthYearOf(nodes[i].born, appBirthYear[i]) = Num(y)

----------------------------------------------------------------------------
(* Anomalous nodes *)

\* The lane an unrecognized category is to fall back to: that of 'Other',
\* or the first lane when there is none.
FallbackX == IF "Other" \in DOMAIN schoolColumns
             THEN schoolColumns["Other"].x ELSE COLUMN_WIDTH \div 2
InLane(x, center) == /\ IsNum(x)
                     /\ 2 * x.v >= 2 * center - COLUMN_WIDTH
                     /\ 2 * x.v <= 2 * center + COLUMN_WIDTH
\* The bottom band of the timeline: the lower half of the scale's range
InBottomBand(y) == /\ IsNum(y)
                   /\ ScaleDefined(globalYScale)
                   /\ 2 * y.v >= globalYScale.r0 + globalYScale.r1
Anomalous(i) == nodes[i].born = Undef /\ IsUnlisted(nodes[i].school)
Settled == phase = "ready" /\ ~running

\* C11: once the simulation has settled, a node with no timestamp and an
\* unrecognized category has a finite x inside the fallback lane and a
\* finite y in the bottom band of the timeline.
C11_AnomalousPlaced ==
    Settled => \A i \in DOMAIN nodes :
                   Anomalous(i) => /\ InLane(nodeX[i], FallbackX)
                                   /\ InBottomBand(nodeY[i])

----------------------------------------------------------------------------
(* Zoom, selection, filter and search *)

layoutVars == << nodeX, nodeY, nodeFx, nodeFy, forces, alpha, alphaTarget,
                running, gesture >>

\* C16: a step of the set-up page that changes the viewport transform, the
\* selection, the search matches, the filter or any class or style they
\* drive leaves every position, every pin and the simulation as they were;
\* zoom changes the transform only, a node click and a search the selection,
\* the matches and the classes only, the filter itself and the styles only.
C16_Step ==
    /\ (phase = "ready" /\ (transform' # transform \/ pickVars' # pickVars
                            \/ styleVars' # styleVars
                            \/ activeSchoolFilter' # activeSchoolFilter))
           => UNCHANGED layoutVars
    /\ (transform' # transform /\ Zoom)
           => UNCHANGED << layoutVars, pickVars, styleVars, activeSchoolFilter >>
    /\ (pickVars' # pickVars /\ (NodeClick \/ Search))
           => UNCHANGED << layoutVars, transform, styleVars, activeSchoolFilter >>
    /\ (activeSchoolFilter' # activeSchoolFilter /\ (LegendClick \/ ShowAll))
           => UNCHANGED << layoutVars, transform, pickVars >>
C16_ViewOnly == [][C16_Step]_vars

\* Zoomed, with a selection, a search match and a filter, while a node is
\* pinned by a drag and the simulation runs.
C16_Witness ==
    /\ phase = "ready" /\ running
    /\ transform \in ZoomTransforms
    /\ selectedNode # 0 /\ searchMatches # {}
    /\ activeSchoolFilter # NoFilter
    /\ \E i \in DOMAIN nodes : Pinned(i)

\* C17: the selection is changed by a node click only, to the node clicked;
\* the nodes flagged selected are that node alone, and the links flagged
\* highlighted are those with it at either end.
EndsAt(l, i) == links[l].source = i \/ links[l].target = i
C17_State ==
    phase = "ready" =>
        /\ Cardinality(selectedClass) <= 1
        /\ selectedClass = {i \in DOMAIN nodes : i = selectedNode}
        /\ \A l \in DOMAIN links :
               l \in highlighted <=> (selectedNode # 0 /\ EndsAt(l, selectedNode))
C17_Step ==
    /\ (selectedNode' # selectedNode) => NodeClick
    /\ \A d \in DOMAIN nodeX :
           (selectedNode' = d /\ pickVars' # pickVars /\ onNodeClick(d)) =>
               \A l \in DOMAIN links : l \in highlighted' <=> EndsAt(l, d)
C17_SelectionHighlight == []C17_State /\ [][C17_Step]_vars

\* The third node is selected: its two links are highlighted, the link
\* between the other two nodes is not.
C17_Witness ==
    /\ phase = "ready" /\ selectedNode = 3 /\ selectedClass = {3}
    /\ highlighted # {} /\ highlighted # DOMAIN links
    /\ \E l \in DOMAIN links : ~EndsAt(l, 3) /\ l \notin highlighted

\* C18: with a school filter set, the nodes of that school have opacity 1
\* and pointer-events 'all' and every other node opacity 0.08 and
\* pointer-events 'none'; with no filter set every node has full opacity
\* and takes pointer events; no node is clicked or grabbed while it takes
\* none.
FullyShown(i) == /\ nodeOpacity[i] \in {Undef, Num(100)}
                 /\ nodePointerEvents[i] \in {"", "all"}
C18_State ==
    phase = "ready" =>
        \A i \in DOMAIN nodes :
            IF activeSchoolFilter = NoFilter THEN FullyShown(i)
            ELSE IF nodes[i].school = activeSchoolFilter
                 THEN nodeOpacity[i] = Num(100) /\ nodePointerEvents[i] = "all"
                 ELSE nodeOpacity[i] = Num(8) /\ nodePointerEvents[i] = "none"
C18_Step ==
    /\ (selectedNode' # selectedNode) => Interactive(selectedNode')
    /\ \A p \in Pointers :
           (gesture'[p] # gesture[p] /\ gesture'[p] # 0) => Interactive(gesture'[p])
C18_FilterDims == []C18_State /\ [][C18_Step]_vars

\* The filter was switched to 'Other': the one node of that school is shown
\* and the two Keynesian nodes are dimmed.
C18_Witness ==
    /\ phase = "ready" /\ activeSchoolFilter = "Other"
    /\ nodeOpacity = << Num(8), Num(100), Num(8) >>
    /\ nodePointerEvents = << "none", "all", "none" >>
    /\ selectedNode = 1

\* C26: at most one legend entry is marked active, it is the entry of the
\* active filter and every other entry is marked inactive; with no filter no
\* entry is marked; 'Show All' is displayed exactly while a filter is active.
\* A click on the active category's entry clears the filter, a click on
\* another entry makes that category the active filter.
C26_State ==
    phase = "ready" =>
        /\ Cardinality(legendActive) <= 1
        /\ activeSchoolFilter = NoFilter =>
               /\ legendActive = {} /\ legendInactive = {}
               /\ showAllDisplay = "none"
        /\ activeSchoolFilter # NoFilter =>
               /\ activeSchoolFilter \in legendItems
               /\ legendActive = {activeSchoolFilter}
               /\ legendInactive = legendItems \ {activeSchoolFilter}
               /\ showAllDisplay = "block"
C26_Step ==
    (activeSchoolFilter' # activeSchoolFilter) =>
        \/ activeSchoolFilter' = NoFilter
        \/ activeSchoolFilter' \in legendItems
C26_SingleSlot == []C26_State /\ [][C26_Step]_vars

\* A filter was set and cleared again: the nodes carry the inline opacity
\* that only clearSchoolFilter writes, no entry is marked and the button is
\* hidden.
C26_Witness ==
    /\ phase = "ready"
    /\ activeSchoolFilter = NoFilter
    /\ \A i \in DOMAIN nodes : nodeOpacity[i] = Num(100)
    /\ legendItems = {"Keynesian", "Other"}
    /\ legendActive = {} /\ legendInactive = {}
    /\ showAllDisplay = "none"

----------------------------------------------------------------------------
(* Adjacency of the timeline browse view *)

HasLink(a, b) == \E l \in DOMAIN links :
                     links[l].source = a /\ links[l].target = b

\* C20: once the adjacency sets are built, for present ids a and b, b is a
\* neighbour of a iff a is a neighbour of b iff the link list holds (a, b)
\* or (b, a), in whichever direction and however often.
C20_Undirected ==
    phase = "browse" =>
        \A a, b \in DOMAIN nodes :
            /\ StringOf(b) \in adj[StringOf(a)] <=> StringOf(a) \in adj[StringOf(b)]
            /\ StringOf(b) \in adj[StringOf(a)] <=> (HasLink(a, b) \/ HasLink(b, a))

\* The link (1, 2) is listed twice and (2, 1) never: 1 is a neighbour of 2.
C20_Witness ==
    /\ phase = "browse"
    /\ Cardinality({l \in DOMAIN links :
                       links[l].source = 1 /\ links[l].target = 2}) = 2
    /\ ~HasLink(2, 1)
    /\ StringOf(1) \in adj[StringOf(2)] /\ StringOf(2) \in adj[StringOf(1)]

----------------------------------------------------------------------------
(* Column force and links *)

\* C19: once the simulation of a dataset with two lanes or more has stopped
\* with no drag in progress, every node is nearer to the center of its own
\* lane than to the center of any other lane.
C19_OwnLaneNearest ==
    (Settled /\ Cardinality(DOMAIN schoolColumns) >= 2
             /\ \A p \in Pointers : gesture[p] = 0) =>
        \A i \in DOMAIN nodes : \A s \in DOMAIN schoolColumns :
            s # nodes[i].school =>
                /\ IsNum(nodeX[i])
                /\ Apart(nodeX[i].v, schoolColumns[nodes[i].school].x)
                       < Apart(nodeX[i].v, schoolColumns[s].x)

----------------------------------------------------------------------------
(* Links with an endpoint that is no node *)

PresentNeighbours(i) == adj[StringOf(i)] \cap PresentKeys(nodes)

\* C21: a link one of whose endpoints is not a present node stays in the link
\* list and adds nothing to the adjacency: every member of a neighbour set is
\* a present node, and the connection count displayed for a node is the number
\* of its present neighbours.
C21_DanglingIgnored ==
    phase = "browse" =>
        \A i \in DOMAIN nodes :
            /\ adj[StringOf(i)] \subseteq PresentKeys(nodes)
            /\ connCount(i) = Cardinality(PresentNeighbours(i))

----------------------------------------------------------------------------
(* Debounced search and reset *)

\* C27: whenever a query is applied it is the text of the search box, trimmed
\* and in lower case; so after a reset, with nothing typed since, the query
\* stays empty and the list stays unfiltered.
C27_Step ==
    /\ (searchQuery' # searchQuery) => searchQuery' = ToLowerCase(Trim(searchBox'))
    /\ (searchBox = << >> /\ searchBox' = << >> /\ searchQuery = << >>
           /\ activeSchools' = {} /\ activeEras' = {} /\ phase = "browse")
        => listed' = DOMAIN nodes
C27_ResetSticks == [][C27_Step]_vars

----------------------------------------------------------------------------
(* Simulations of views that are gone *)

\* C23: a simulation whose view is torn down or replaced does not tick on:
\* once the landing screen is dismissed its simulation is stopped, and the
\* only mini-network simulation that may be ticking is the one whose svg is
\* in the panel, so at most one is ticking at any time.
C23_NoDanglingTicks ==
    /\ landing \in {"hiding", "gone"} => landingSim = 0
    /\ Cardinality(DOMAIN miniSims) <= 1
    /\ \A k \in DOMAIN miniSims : k = miniSvg

----------------------------------------------------------------------------
(* Biography responses *)

Showing(n) == ~panelHidden /\ appSelected = n

\* C28: while the panel shows node X, the biography text is the loading
\* placeholder, a fallback or error message, or the extract fetched for X,
\* and it was written for X; a response that arrives for another node while
\* X is shown leaves the text as it is.
C28_State ==
    \A n \in DOMAIN nodes :
        Showing(n) =>
            /\ bioText.of = n
            /\ bioText.kind \in {"loading", "nourl", "unavailable",
                                  "extract", "nosummary", "error"}
C28_Step ==
    \A n \in DOMAIN nodes :
        (Showing(n) /\ Showing(n)' /\ opens' = opens /\ bioText' # bioText) =>
            \E f \in fetches \ fetches' : f.n = n /\ bioText'.of = n
C28_BioOfSelected == []C28_State /\ [][C28_Step]_vars

\* The panel shows the second node opened, with its own extract, after the
\* response for the first node has arrived too.
C28_Witness ==
    /\ opens = 2
    /\ \E n \in DOMAIN nodes :
          /\ Showing(n)
          /\ bioText = [kind |-> "extract", of |-> n]
          /\ fetches = {}
          /\ \E m \in DOMAIN nodes \ {n} :
                /\ nodes[m].url = "wiki"
                /\ [n |-> m, k |-> 1] \in miniTimers

----------------------------------------------------------------------------
(* Research searches *)

IsDistinct(w) == \A a, b \in DOMAIN w : a # b => w[a] # w[b]

\* C29: once no response of any research search is outstanding, what is
\* displayed belongs to the search issued last; and every displayed list has
\* at most six economists, each once, the name hits of its query before the
\* ranked results.
C29_LatestShown ==
    /\ (issued > 0 /\ contextPending = {} /\ summaryPending = {})
           => researchShown.q = latestQuery
    /\ LET cards == researchShown.cards
           hits  == findNameHits(researchShown.q)
       IN  /\ Len(cards) <= 6
           /\ IsDistinct(cards)
           /\ \A a, b \in DOMAIN cards :
                  (cards[b] \in Range(hits) /\ cards[a] \notin Range(hits))
                      => b < a

----------------------------------------------------------------------------
(* Debate sides *)

Found(names) == {findNode(names[k]) : k \in DOMAIN names} \ {0}

\* C30: a resolved debate has every economist on one side at most and once
\* at most; whoever a name of list A finds is on side A, whoever only a name
\* of list B finds is on side B, whatever the schools say; everyone else is
\* placed by school; and a repeated call returns the memoized result.
C30_State ==
    resolved # << >> =>
        LET r == resolved[1]
        IN  /\ Range(r.nodesA) \cap Range(r.nodesB) = {}
            /\ IsDistinct(r.nodesA) /\ IsDistinct(r.nodesB)
            /\ Range(r.nodesA) \cup Range(r.nodesB) \subseteq DOMAIN nodes
            /\ Found(debate.namesA) \subseteq Range(r.nodesA)
            /\ Found(debate.namesB) \ Found(debate.namesA) \subseteq Range(r.nodesB)
            /\ \A i \in DOMAIN nodes \ (Found(debate.namesA) \cup Found(debate.namesB)) :
                   /\ i \in Range(r.nodesA) <=> nodes[i].school \in debate.schoolsA
                   /\ i \in Range(r.nodesB) <=>
                          (nodes[i].school \in debate.schoolsB
                              /\ nodes[i].school \notin debate.schoolsA)
            /\ returned = resolved
C30_Step == (resolved # << >>) => (resolved' = resolved /\ returned' = resolved)
C30_Sides == []C30_State /\ [][C30_Step]_vars

\* Called twice on a debate that names one economist on both lists and whose
\* school lists would put a B-named economist on side A.
C30_Witness ==
    /\ calls = 2
    /\ resolved # << >> /\ returned = resolved
    /\ Found(debate.namesA) \cap Found(debate.namesB) # {}
    /\ \E i \in Range(resolved[1].nodesB) :
          /\ i \in Found(debate.namesB)
          /\ nodes[i].school \in debate.schoolsA
    /\ resolved[1].nodesA # << >>

====
